---- MODULE Spec2Model ----
(***************************************************************************)
(* The skill catalogue of NicoCodeFlow: every SkillDefinition of the       *)
(* repository, its Zod schema, its handler, and the frontend registry      *)
(* (frontendSkills) that exposes handlers by name.                         *)
(*                                                                         *)
(* Strings are sequences of lexemes (a template literal is the             *)
(* concatenation of its fixed parts and of the interpolated values), so    *)
(* two texts are byte-identical exactly when the sequences are equal.      *)
(* A handler is executed statement by statement on a frame that holds its  *)
(* local variables; module-level state is the registry, the definition     *)
(* objects and whatever binding a handler would keep outside its body.     *)
(***************************************************************************)
EXTENDS Integers, Sequences, FiniteSets, TLC

VARIABLES
    definitions,   \* frontendSkills.definitions: references to definition objects
    handlers,      \* frontendSkills.handlers: skill name -> handler function
    defs,          \* the SkillDefinition objects: reference -> [name, parameters, handler]
    now,           \* the clock read by Date.now()
    frames,        \* the invocations in flight, one frame per slot
    hoisted,       \* bindings of handlers that outlive one call (module scope)
    settled        \* how many invocations have settled so far (MaxCalls: that many or more)

vars == <<definitions, handlers, defs, now, frames, hoisted, settled>>

\* Bounds of the model.
MaxClock == 1
MaxPar == 2
MaxCalls == 1

(***************************************************************************)
(* JavaScript values                                                       *)
(***************************************************************************)

\* undefined (an omitted optional field); printed as "undefined" by a template
Undefined == <<"<undefined>">>

\* `${x}` inside a template literal
Interp(x) == IF x = Undefined THEN <<"undefined">> ELSE x

\* x ? a : b on a string-or-undefined value: '' and undefined are falsy
Truthy(x) == x # Undefined /\ x # <<>>

\* a || b
OrElse(a, b) == IF Truthy(a) THEN a ELSE b

\* the text whatever the condition
WhenOrNot(cond, text) == text

\* cond ? `text` : ''
When(cond, text) == IF cond THEN text ELSE <<>>

RECURSIVE Flatten(_)
\* the concatenation of a sequence of texts
Flatten(ss) == IF ss = <<>> THEN <<>> ELSE Head(ss) \o Flatten(Tail(ss))

RECURSIVE Join(_, _)
\* Array.prototype.join
Join(ss, sep) ==
    IF ss = <<>> THEN <<>>
    ELSE IF Len(ss) = 1 THEN Head(ss)
    ELSE Head(ss) \o sep \o Join(Tail(ss), sep)

\* Array.prototype.map
Map(xs, F(_)) == [i \in DOMAIN xs |-> F(xs[i])]

\* Array.prototype.includes / some
Includes(xs, x) == \E i \in DOMAIN xs : xs[i] = x

\* A number n is kept as twice its value, so that halves are representable.
Num(twice) == [twice |-> twice]
Whole(n) == Num(2 * n)
IsWhole(x) == x.twice % 2 = 0
Abs(i) == IF i < 0 THEN -i ELSE i
\* `${n}` for a number
NumText(x) ==
    LET a == Abs(x.twice)
        sign == IF x.twice < 0 THEN <<"-">> ELSE <<>>
    IN  sign \o <<ToString(a \div 2)>> \o (IF a % 2 = 1 THEN <<".5">> ELSE <<>>)

\* String.prototype.toUpperCase on one lexeme of the inputs the model enumerates
UpperTok(c) ==
    CASE c = "admin" -> "ADMIN" [] c = "user" -> "USER" [] c = "super admin" -> "SUPER ADMIN"
      [] c = "ADMIN" -> "ADMIN"
      [] c = "users" -> "USERS" [] c = "message" -> "MESSAGE" [] c = "join" -> "JOIN"
      [] c = "fetchUsers" -> "FETCHUSERS" [] c = "card" -> "CARD" [] c = "form" -> "FORM"
      [] c = "modal" -> "MODAL" [] c = "data-table" -> "DATA-TABLE"
      [] c = "settings" -> "SETTINGS" [] c = "login" -> "LOGIN" [] c = "id" -> "ID"
      [] OTHER -> c

\* String.prototype.toLowerCase on one lexeme
LowerTok(c) ==
    CASE c = "Events" -> "events" [] c = "Chat" -> "chat" [] c = "Tasks" -> "tasks"
      [] c = "UserProfile" -> "userprofile" [] c = "User" -> "user" [] c = "Order" -> "order"
      [] c = "Empty State for Orders" -> "empty state for orders"
      [] c = "Hero Section for SaaS" -> "hero section for saas"
      [] c = "Sidebar" -> "sidebar" [] c = "Full Name" -> "full name" [] c = "Email" -> "email"
      [] c = "Users" -> "users" [] c = "UsersRepository" -> "usersrepository"
      [] c = "ADMIN" -> "admin"
      [] c = "Generated" -> "generated" [] c = "Card" -> "card" [] c = "Form" -> "form"
      [] c = "Modal" -> "modal" [] c = "Data-table" -> "data-table"
      [] c = "Carousel" -> "carousel" [] c = "UserModal" -> "usermodal"
      [] OTHER -> c

\* s.charAt(0).toUpperCase() + s.slice(1) on one lexeme
CapTok(c) ==
    CASE c = "users" -> "Users" [] c = "message" -> "Message" [] c = "join" -> "Join"
      [] c = "fetchUsers" -> "FetchUsers" [] c = "card" -> "Card" [] c = "form" -> "Form"
      [] c = "modal" -> "Modal" [] c = "data-table" -> "Data-table"
      [] c = "settings" -> "Settings" [] c = "login" -> "Login" [] c = "id" -> "Id"
      [] c = "carousel" -> "Carousel"
      [] OTHER -> c

toUpperCase(s) == [i \in DOMAIN s |-> UpperTok(s[i])]
\* the text with its case kept
keepCase(s) == s

toLowerCase(s) == [i \in DOMAIN s |-> LowerTok(s[i])]
\* s.charAt(0).toUpperCase() + s.slice(1)
capitalize(s) == IF s = <<>> THEN <<>> ELSE <<CapTok(s[1])>> \o Tail(s)

\* String.prototype.trim: whitespace lexemes at both ends go
IsSpace(c) == c \in {"\n", " ", "\n\n", "  "}
RECURSIVE TrimStart(_)
TrimStart(s) == IF s # <<>> /\ IsSpace(Head(s)) THEN TrimStart(Tail(s)) ELSE s
RECURSIVE TrimEnd(_)
TrimEnd(s) == IF s # <<>> /\ IsSpace(s[Len(s)]) THEN TrimEnd(SubSeq(s, 1, Len(s) - 1)) ELSE s
\* the text with its surrounding whitespace kept
untrimmed(s) == s

Trim(s) == TrimEnd(TrimStart(s))

\* A Record<string,string> in insertion order: a sequence of <<key, content>>.
Keys(files) == [i \in DOMAIN files |-> files[i][1]]
HasKey(files, k) == \E i \in DOMAIN files : files[i][1] = k
Get(files, k) == files[CHOOSE i \in DOMAIN files : files[i][1] = k][2]
\* files = { [k]: v }: the record holds this one entry only
PutAlone(files, k, v) == << <<k, v>> >>

\* files[k] = v
Put(files, k, v) ==
    IF HasKey(files, k)
    THEN [i \in DOMAIN files |-> IF files[i][1] = k THEN <<k, v>> ELSE files[i]]
    ELSE Append(files, <<k, v>>)

(***************************************************************************)
(* Handler outcomes.  A handler is an operator of the statement index pc,  *)
(* the arguments a, the current values L of its variables and the clock:   *)
(* it yields the variables after the statement and whether the body goes   *)
(* on, has returned a SkillResult, or has thrown.                          *)
(***************************************************************************)
NoResult == [success |-> FALSE, data |-> <<>>, metadata |-> <<>>]
Run(L) == [loc |-> L, st |-> "run", res |-> NoResult, err |-> ""]
Ret(L, r) == [loc |-> L, st |-> "ret", res |-> r, err |-> ""]
Throw(L, e) == [loc |-> L, st |-> "throw", res |-> NoResult, err |-> e]

\* small sets the enumerated inputs are built from
BOOL == {TRUE, FALSE}

(***************************************************************************)
(* backend/api/rate_limit_setup                                            *)
(***************************************************************************)
RateLimitSetupSchema(a) == TRUE
RateLimitSetupInputs == [ttl : {Whole(60)}, limit : {Whole(10), Whole(3)}]

rate_limit_setup_handler(pc, a, L, t) ==
    CASE pc = 0 -> Run([code |-> <<>>])
      [] pc = 1 -> Run([L EXCEPT !.code =
            <<"@Module({ imports: [ThrottlerModule.forRoot([{ ttl: ">> \o NumText(a.ttl)
            \o <<", limit: ">> \o NumText(a.limit)
            \o <<" }])], providers: [APP_GUARD ThrottlerGuard] }) export class RateLimiterModule {}">>])
      [] OTHER -> Ret(L, [success |-> TRUE, data |-> L.code,
            metadata |-> [dependencies |-> <<"@nestjs/throttler">>,
                          defaultConfig |-> [ttl |-> a.ttl, limit |-> a.limit]]])

(***************************************************************************)
(* backend/api/swagger_doc_helper                                          *)
(***************************************************************************)
SwaggerDocHelperSchema(a) ==
    \A i \in DOMAIN a.properties :
        a.properties[i].name # Undefined /\ a.properties[i].type # Undefined
SwaggerDocHelperInputs ==
    LET Prop == [name : {<<"email">>}, type : {<<"string">>, Undefined},
                 description : {Undefined, <<"User email">>},
                 example : {Undefined, <<"\"a@b.c\"">>}, required : BOOL]
    IN  [properties : {<<>>} \cup {<<p>> : p \in Prop}, className : {<<"GeneratedDto">>}]

\* the callback of properties.map
swagger_propertyCode(prop) ==
    LET o1 == IF Truthy(prop.description)
              THEN <<(<<"description: '">> \o prop.description \o <<"'">>)>> ELSE <<>>
        o2 == IF prop.example # Undefined
              THEN Append(o1, <<"example: ">> \o prop.example) ELSE o1
        apiPropOptions == IF prop.required = FALSE THEN Append(o2, <<"required: false">>) ELSE o2
        optionsStr == IF Len(apiPropOptions) > 0
                      THEN <<"{ ">> \o Join(apiPropOptions, <<", ">>) \o <<" }">> ELSE <<>>
        optionalMark == IF prop.required THEN <<>> ELSE <<"?">>
    IN  <<"\n  @ApiProperty(">> \o optionsStr \o <<")\n  ">> \o Interp(prop.name)
        \o optionalMark \o <<": ">> \o Interp(prop.type) \o <<";">>

swagger_doc_helper_handler(pc, a, L, t) ==
    CASE pc = 0 -> Run([propertyCodes |-> <<>>, code |-> <<>>])
      [] pc = 1 -> Run([L EXCEPT !.propertyCodes =
            Join(Map(a.properties, swagger_propertyCode), <<"\n">>)])
      [] pc = 2 -> Run([L EXCEPT !.code =
            <<"import { ApiProperty } from '@nestjs/swagger';\n\nexport class ">>
            \o a.className \o <<" {\n">> \o L.propertyCodes \o <<"\n}\n">>])
      [] OTHER -> Ret(L, [success |-> TRUE, data |-> L.code,
            metadata |-> [documentation |-> <<"NestJS Swagger DTO">>,
                          decoratedProperties |-> [i \in DOMAIN a.properties |-> a.properties[i].name]]])

(***************************************************************************)
(* backend/api/versioning_manager                                          *)
(***************************************************************************)
VersioningManagerSchema(a) == a.type \in {<<"URI">>, <<"HEADER">>, <<"MEDIA_TYPE">>}
VersioningManagerInputs ==
    [type : {<<"URI">>, <<"HEADER">>, <<"MEDIA_TYPE">>, <<"QUERY">>},
     defaultVersion : {<<"1">>}, prefix : {<<"api/v">>, <<"v">>}]

versioning_manager_handler(pc, a, L, t) ==
    CASE pc = 0 -> Run([code |-> <<>>])
      [] pc = 1 -> Run([L EXCEPT !.code =
            <<"async function bootstrap() { app.enableVersioning({ type: VersioningType.">>
            \o a.type \o <<", defaultVersion: '">> \o a.defaultVersion
            \o <<"', }); await app.listen(3000); } bootstrap();\n">>])
      [] OTHER -> Ret(L, [success |-> TRUE, data |-> L.code,
            metadata |-> [versioningType |-> a.type, defaultVersion |-> a.defaultVersion]])

(***************************************************************************)
(* backend/api/generate_nest_resource                                      *)
(***************************************************************************)
NestComponents == {<<"module">>, <<"controller">>, <<"service">>, <<"dto">>, <<"entity">>}
generateNestResourceSchema(a) ==
    /\ a.resourceName # Undefined
    /\ \A i \in DOMAIN a.components : a.components[i] \in NestComponents
generateNestResourceInputs ==
    [resourceName : {<<"users">>}, path : {<<"src">>},
     components : {<<>>, <<(<<"entity">>)>>, <<(<<"dto">>)>>, <<(<<"module">>)>>,
                   <<(<<"guard">>)>>,
                   << <<"module">>, <<"controller">>, <<"service">> >>,
                   << <<"controller">>, <<"dto">> >>,
                   << <<"module">>, <<"controller">>, <<"service">>, <<"dto">>, <<"entity">> >>},
     isCrud : BOOL]

generate_nest_resource_handler(pc, a, L, t) ==
    LET resourceName == a.resourceName
        components == a.components
        dto == Includes(components, <<"dto">>)
        dtoImports(cn) ==
            When(dto, <<"import { Create">> \o cn \o <<"Dto } from './dto/create-">>
                      \o resourceName \o <<".dto';">>)
            \o <<"\n">>
            \o When(dto, <<"import { Update">> \o cn \o <<"Dto } from './dto/update-">>
                         \o resourceName \o <<".dto';">>)
        createT(cn) == IF dto THEN <<"Create">> \o cn \o <<"Dto">> ELSE <<"any">>
        updateT(cn) == IF dto THEN <<"Update">> \o cn \o <<"Dto">> ELSE <<"any">>
    IN
    CASE pc = 0 -> Run([className |-> capitalize(resourceName), files |-> <<>>,
                        basePath |-> a.path \o <<"/">> \o resourceName])
      [] pc = 1 -> Run(IF Includes(components, <<"controller">>)
            THEN [L EXCEPT !.files = Put(@, L.basePath \o <<"/">> \o resourceName \o <<".controller.ts">>,
                    <<"\nimport { Controller, Get, Post, Body, Patch, Param, Delete } from '@nestjs/common';\n">>
                    \o <<"import { ">> \o L.className \o <<"Service } from './">> \o resourceName \o <<".service';\n">>
                    \o dtoImports(L.className)
                    \o <<"\n\n@Controller('">> \o resourceName \o <<"')\nexport class ">>
                    \o L.className \o <<"Controller {">>
                    \o When(a.isCrud, <<"@Post() create(">> \o createT(L.className)
                                      \o <<") @Get() findAll() @Get(':id') findOne() @Patch(':id') update(">>
                                      \o updateT(L.className) \o <<") @Delete(':id') remove()">>)
                    \o <<"\n}\n">>)]
            ELSE L)
      [] pc = 2 -> Run(IF Includes(components, <<"service">>)
            THEN [L EXCEPT !.files = Put(@, L.basePath \o <<"/">> \o resourceName \o <<".service.ts">>,
                    <<"\nimport { Injectable } from '@nestjs/common';\n">>
                    \o dtoImports(L.className)
                    \o <<"\n\n@Injectable()\nexport class ">> \o L.className \o <<"Service {">>
                    \o When(a.isCrud, <<"create(">> \o createT(L.className)
                                      \o <<") findAll() findOne(id) update(id, ">>
                                      \o updateT(L.className) \o <<") remove(id)">>)
                    \o <<"\n}\n">>)]
            ELSE L)
      [] pc = 3 -> Run(IF Includes(components, <<"module">>)
            THEN [L EXCEPT !.files = Put(@, L.basePath \o <<"/">> \o resourceName \o <<".module.ts">>,
                    <<"\nimport { Module } from '@nestjs/common';\n">>
                    \o <<"import { ">> \o L.className \o <<"Service } from './">> \o resourceName \o <<".service';\n">>
                    \o <<"import { ">> \o L.className \o <<"Controller } from './">> \o resourceName \o <<".controller';\n">>
                    \o <<"\n@Module({ controllers: [">> \o L.className \o <<"Controller], providers: [">>
                    \o L.className \o <<"Service], })\nexport class ">> \o L.className \o <<"Module {}\n">>)]
            ELSE L)
      [] pc = 4 -> Run(IF dto
            THEN [L EXCEPT !.files = Put(@, L.basePath \o <<"/dto/create-">> \o resourceName \o <<".dto.ts">>,
                    <<"export class Create">> \o L.className \o <<"Dto {}">>)]
            ELSE L)
      [] pc = 5 -> Run(IF dto
            THEN [L EXCEPT !.files = Put(@, L.basePath \o <<"/dto/update-">> \o resourceName \o <<".dto.ts">>,
                    <<"import { PartialType } from '@nestjs/mapped-types';\n">>
                    \o <<"import { Create">> \o L.className \o <<"Dto } from './create-">>
                    \o resourceName \o <<".dto';\n\n">>
                    \o <<"export class Update">> \o L.className \o <<"Dto extends PartialType(Create">>
                    \o L.className \o <<"Dto) {}">>)]
            ELSE L)
      [] OTHER -> Ret(L, [success |-> TRUE, data |-> L.files,
            metadata |-> [generatedFiles |-> Keys(L.files),
                          description |-> <<"Generated NestJS resource for ">> \o resourceName]])

(***************************************************************************)
(* backend/infrastructure/logger_provider                                  *)
(***************************************************************************)
LoggerProviderSchema(a) == a.library \in {<<"winston">>, <<"pino">>}
LoggerProviderInputs ==
    [library : {<<"winston">>, <<"pino">>, <<"bunyan">>}, contextName : {<<"MyApp">>}]

logger_provider_handler(pc, a, L, t) ==
    CASE pc = 0 -> Run([code |-> <<>>])
      [] pc = 1 -> Run([L EXCEPT !.code =
            IF a.library = <<"winston">>
            THEN <<"import { WinstonModule } from 'nest-winston';\n">>
                 \o <<"export const loggerConfig = WinstonModule.createLogger({ nestLike('">>
                 \o a.contextName \o <<"') });\n">>
            ELSE <<"import { LoggerErrorInterceptor } from 'nestjs-pino';\n">>
                 \o <<"export const pinoConfig = { pinoHttp: { name: '">>
                 \o a.contextName \o <<"' } };\n">>])
      [] OTHER -> Ret(L, [success |-> TRUE, data |-> L.code,
            metadata |-> [library |-> a.library,
                          recommendedDependencies |->
                            IF a.library = <<"winston">> THEN <<"nest-winston", "winston">>
                            ELSE <<"nestjs-pino", "pino-http", "pino-pretty">>]])

(***************************************************************************)
(* backend/infrastructure/health_check_builder                             *)
(***************************************************************************)
\* the schema demanding at least one of the two checks
HealthCheckBuilderSchemaSomeCheck(a) ==
    /\ a.checkDatabase \in BOOL /\ a.checkMemory \in BOOL
    /\ a.checkDatabase \/ a.checkMemory

\* every field has a default and the model passes well-typed values only
HealthCheckBuilderSchema(a) == a.checkDatabase \in BOOL /\ a.checkMemory \in BOOL
HealthCheckBuilderInputs ==
    [checkDatabase : BOOL, checkMemory : BOOL, memoryThresholdMB : {Whole(150), Whole(0)}]

health_check_builder_handler(pc, a, L, t) ==
    CASE pc = 0 -> Run([imports |->
                            << <<"import { Controller, Get } from '@nestjs/common';">>,
                               <<"import { HealthCheck, HealthCheckService, HealthCheckResult } from '@nestjs/terminus';">> >>,
                        constructorArgs |-> << <<"private health: HealthCheckService">> >>,
                        checks |-> <<>>, code |-> <<>>])
      [] pc = 1 -> Run(IF a.checkDatabase = TRUE
            THEN [L EXCEPT !.imports =
                    Append(@, <<"import { TypeOrmHealthIndicator } from '@nestjs/terminus';">>)]
            ELSE L)
      [] pc = 2 -> Run(IF a.checkMemory
            THEN [L EXCEPT !.imports =
                    Append(@, <<"import { MemoryHealthIndicator } from '@nestjs/terminus';">>)]
            ELSE L)
      [] pc = 3 -> Run(IF a.checkDatabase = TRUE
            THEN [L EXCEPT !.constructorArgs = Append(@, <<"private db: TypeOrmHealthIndicator">>),
                           !.checks = Append(@, <<"() => this.db.pingCheck('database')">>)]
            ELSE L)
      [] pc = 4 -> Run(IF a.checkMemory
            THEN [L EXCEPT !.constructorArgs = Append(@, <<"private memory: MemoryHealthIndicator">>),
                           !.checks = Append(@, <<"() => this.memory.checkHeap('memory_heap', ">>
                                                 \o NumText(a.memoryThresholdMB) \o <<" * 1024 * 1024)">>)]
            ELSE L)
      [] pc = 5 -> Run([L EXCEPT !.code =
            Join(L.imports, <<"\n">>)
            \o <<"\n\n@Controller('health')\nexport class HealthController {\n  constructor(\n    ">>
            \o Join(L.constructorArgs, <<",\n    ">>)
            \o <<"\n  ) {}\n\n  @Get()\n  @HealthCheck()\n  check() {\n    return this.health.check([\n      ">>
            \o Join(L.checks, <<",\n      ">>)
            \o <<"\n    ]);\n  }\n}\n">>])
      [] OTHER -> Ret(L, [success |-> TRUE, data |-> L.code,
            metadata |-> [dependencies |-> <<"@nestjs/terminus", "@nestjs/axios">>,
                          endpoint |-> <<"/health">>]])

(***************************************************************************)
(* backend/infrastructure/cache_manager                                    *)
(***************************************************************************)
CacheManagerSchema(a) ==
    /\ a.cacheType \in {<<"redis">>, <<"memory">>}
    /\ a.generateDecorator \in BOOL /\ a.generateInterceptor \in BOOL
CacheManagerInputs ==
    [cacheType : {<<"redis">>, <<"memory">>, <<"memcached">>}, defaultTTL : {Whole(3600)},
     keyPrefix : {<<"app">>}, generateDecorator : BOOL, generateInterceptor : BOOL]

cache_manager_handler(pc, a, L, t) ==
    LET redis == a.cacheType = <<"redis">>
    IN
    CASE pc = 0 -> Run([files |-> <<>>])
      [] pc = 1 -> Run([L EXCEPT !.files = Put(@, <<"cache.module.ts">>,
            <<"import { Module, Global } from '@nestjs/common';\n">>
            \o When(redis, <<"import * as redisStore from 'cache-manager-redis-store';">>)
            \o <<"\n">> \o <<"import { CacheService } from './cache.service';">>
            \o <<"\n@Global() @Module({ imports: [ NestCacheModule.register({ ">>
            \o When(redis, <<"store: redisStore, host, port, password,">>)
            \o <<" ttl: ">> \o NumText(a.defaultTTL)
            \o <<", }), ], providers: [CacheService], exports: [CacheService] })\nexport class CacheModule {}\n">>)])
      [] pc = 2 -> Run([L EXCEPT !.files = Put(@, <<"cache.service.ts">>,
            <<"import { Injectable, Inject } from '@nestjs/common';\n">>
            \o <<"@Injectable() export class CacheService { private readonly prefix = '">>
            \o a.keyPrefix \o <<"'; get() set(key, value, ttl || ">> \o NumText(a.defaultTTL)
            \o <<") del() invalidatePattern() }\n">>)])
      [] pc = 3 -> Run(IF a.generateDecorator = TRUE
            THEN [L EXCEPT !.files = Put(@, <<"cacheable.decorator.ts">>,
                    <<"import { SetMetadata } from '@nestjs/common';\n">>
                    \o <<"export const Cacheable = (options = {}) => { ... };\n">>)]
            ELSE L)
      [] pc = 4 -> Run(IF a.generateInterceptor = TRUE
            THEN [L EXCEPT !.files = Put(@, <<"cache.interceptor.ts">>,
                    <<"import { Injectable, NestInterceptor } from '@nestjs/common';\n">>
                    \o <<"import { CacheService } from './cache.service';">> \o <<"\n">>
                    \o <<"import { CACHE_KEY_METADATA, CACHE_TTL_METADATA } from './cacheable.decorator';">>
                    \o <<"\n@Injectable() export class CustomCacheInterceptor implements NestInterceptor { ... }\n">>)]
            ELSE L)
      [] pc = 5 -> Run([L EXCEPT !.files = Put(@, <<"cache.example.ts">>,
            <<"// Example usage in a service or controller\n">>
            \o <<"import { Cacheable } from './cacheable.decorator';">> \o <<"\n">>
            \o <<"import { UseInterceptors } from '@nestjs/common';\n">>
            \o <<"import { CustomCacheInterceptor } from './cache.interceptor';">>
            \o <<"\n@Controller('products') export class ProductsController { ... }\n">>)])
      [] OTHER -> Ret(L, [success |-> TRUE, data |-> L.files,
            metadata |-> [cacheType |-> a.cacheType, defaultTTL |-> a.defaultTTL,
                          generatedFiles |-> Keys(L.files)]])

(***************************************************************************)
(* backend/infrastructure/email_service                                    *)
(***************************************************************************)
EmailServiceSchema(a) ==
    /\ a.provider \in {<<"nodemailer">>, <<"sendgrid">>, <<"resend">>}
    /\ a.templateEngine \in {<<"handlebars">>, <<"ejs">>, <<"none">>}
    /\ a.includeTemplates \in BOOL /\ a.queueSupport \in BOOL
EmailServiceInputs ==
    [provider : {<<"nodemailer">>, <<"sendgrid">>, <<"resend">>, <<"mailgun">>},
     templateEngine : {<<"handlebars">>, <<"none">>},
     includeTemplates : BOOL, queueSupport : BOOL]

email_service_handler(pc, a, L, t) ==
    LET hbs == a.templateEngine = <<"handlebars">>
        queue == a.queueSupport = TRUE
    IN
    CASE pc = 0 -> Run([files |-> <<>>, serviceCode |-> <<>>])
      [] pc = 1 -> Run([L EXCEPT !.files = Put(@, <<"email.module.ts">>,
            <<"import { Module, Global } from '@nestjs/common';\n">>
            \o <<"import { EmailService } from './email.service';">> \o <<"\n">>
            \o When(queue, <<"import { BullModule } from '@nestjs/bull';\n">>
                           \o <<"import { EmailProcessor } from './email.processor';">>)
            \o <<"\n@Global() @Module({ ">>
            \o When(queue, <<"imports: [BullModule.registerQueue({ name: 'email' })],">>)
            \o <<" providers: [EmailService">> \o When(queue, <<", EmailProcessor">>)
            \o <<"], exports: [EmailService] })\nexport class EmailModule {}\n">>)])
      [] pc = 2 -> Run([L EXCEPT !.serviceCode =
            IF a.provider = <<"nodemailer">>
            THEN <<"import { Injectable, Logger } from '@nestjs/common';\nimport * as nodemailer from 'nodemailer';\n">>
                 \o When(hbs, <<"import * as handlebars from 'handlebars';">>) \o <<"\n">>
                 \o When(queue, <<"import { InjectQueue } from '@nestjs/bull';\nimport { Queue } from 'bull';">>)
                 \o <<"\nexport interface SendEmailOptions {}\n@Injectable() export class EmailService { constructor(">>
                 \o When(queue, <<"@InjectQueue('email') private emailQueue: Queue,">>)
                 \o <<") {} ">>
                 \o When(hbs, <<"private compileTemplate(templateName, context) {}">>)
                 \o <<" async send(options) { ">>
                 \o When(hbs, <<"if (options.template && options.context) { html = this.compileTemplate(); }">>)
                 \o <<" } ">>
                 \o When(queue, <<"async sendAsync(options) { await this.emailQueue.add('send', options); }">>)
                 \o <<" sendWelcome() sendPasswordReset() sendOrderConfirmation() }\n">>
            ELSE IF a.provider = <<"resend">>
            THEN <<"import { Injectable, Logger } from '@nestjs/common';\nimport { Resend } from 'resend';\n">>
                 \o <<"export interface SendEmailOptions {}\n@Injectable() export class EmailService { async send(options) {} }\n">>
            ELSE <<"import { Injectable, Logger } from '@nestjs/common';\nimport * as sgMail from '@sendgrid/mail';\n">>
                 \o <<"export interface SendEmailOptions {}\n@Injectable() export class EmailService { async send(options) {} }\n">>])
      [] pc = 3 -> Run([L EXCEPT !.files = Put(@, <<"email.service.ts">>, L.serviceCode)])
      [] pc = 4 -> Run(IF queue
            THEN [L EXCEPT !.files = Put(@, <<"email.processor.ts">>,
                    <<"import { Process, Processor } from '@nestjs/bull';\n">>
                    \o <<"import { EmailService, SendEmailOptions } from './email.service';">>
                    \o <<"\n@Processor('email') export class EmailProcessor { @Process('send') handleSend(job) {} }\n">>)]
            ELSE L)
      [] pc = 5 -> Run(IF a.includeTemplates = TRUE /\ hbs
            THEN [L EXCEPT !.files =
                    Put(Put(Put(@, <<"templates/welcome.hbs">>, <<"<!DOCTYPE html> Welcome, {{name}}!">>),
                            <<"templates/password-reset.hbs">>, <<"<!DOCTYPE html> Reset Your Password {{resetUrl}}">>),
                        <<"templates/order-confirmation.hbs">>, <<"<!DOCTYPE html> Order #{{order.id}}">>)]
            ELSE L)
      [] OTHER -> Ret(L, [success |-> TRUE, data |-> L.files,
            metadata |-> [provider |-> a.provider, templateEngine |-> a.templateEngine,
                          queueSupport |-> a.queueSupport, generatedFiles |-> Keys(L.files)]])

(***************************************************************************)
(* backend/infrastructure/websocket_gateway                                *)
(***************************************************************************)
WebSocketGatewaySchema(a) ==
    /\ \A i \in DOMAIN a.events : a.events[i].name # Undefined
    /\ a.withAuth \in BOOL /\ a.withRooms \in BOOL
WebSocketGatewayInputs ==
    LET Ev(n, p, b) == [name |-> n, hasPayload |-> p, broadcast |-> b]
    IN  [gatewayName : {<<"Events">>}, namespace : {Undefined, <<"/chat">>},
         events : {<<>>,
                   <<Ev(<<"message">>, TRUE, TRUE), Ev(<<"join">>, TRUE, FALSE)>>,
                   <<Ev(<<"ping">>, FALSE, TRUE)>>,
                   <<Ev(Undefined, TRUE, FALSE)>>},
         withAuth : BOOL, withRooms : BOOL]

\* the callback of events.map
websocket_eventHandler(event, gatewayName, withRooms) ==
    <<"\n  @SubscribeMessage('">> \o Interp(event.name) \o <<"')\n  handle">>
    \o capitalize(Interp(event.name)) \o <<"(\n    @ConnectedSocket() client: Socket,\n    ">>
    \o When(event.hasPayload, <<"@MessageBody() payload: any,">>)
    \o <<"\n  ) {\n    console.log([">> \o gatewayName \o <<"] ">> \o Interp(event.name)
    \o <<" from ${client.id}">> \o When(event.hasPayload, <<", payload">>) \o <<");\n    ">>
    \o (IF event.broadcast
        THEN <<"// Broadcast to all clients">> \o When(withRooms, <<" in the room">>) \o <<"\n    ">>
             \o (IF withRooms
                 THEN <<"const room = payload.room || 'general';\n    this.server.to(room).emit('">>
                      \o Interp(event.name) \o <<"', { from: client.id, ...payload, timestamp });">>
                 ELSE <<"this.server.emit('">> \o Interp(event.name) \o <<"', { from: client.id, ">>
                      \o When(event.hasPayload, <<"...payload,">>) \o <<" timestamp });">>)
        ELSE <<"// Acknowledge to sender\n    return { event: '">> \o Interp(event.name)
             \o <<"', status: 'received' };">>)
    \o <<"\n  }">>

websocket_gateway_handler(pc, a, L, t) ==
    LET gatewayName == a.gatewayName
        auth == a.withAuth = TRUE
        rooms == a.withRooms = TRUE
        EvH(e) == websocket_eventHandler(e, gatewayName, rooms)
    IN
    CASE pc = 0 -> Run([files |-> <<>>, lowerName |-> toLowerCase(gatewayName), eventHandlers |-> <<>>])
      [] pc = 1 -> Run([L EXCEPT !.eventHandlers = Join(Map(a.events, EvH), <<"\n">>)])
      [] pc = 2 -> Run([L EXCEPT !.files = Put(@, L.lowerName \o <<".gateway.ts">>,
            <<"import { WebSocketGateway, SubscribeMessage } from '@nestjs/websockets';\n">>
            \o <<"import { Logger">> \o When(auth, <<", UseGuards">>) \o <<" } from '@nestjs/common';\n">>
            \o When(auth, <<"import { WsJwtGuard } from './ws-jwt.guard';">>)
            \o <<"\n@WebSocketGateway({ ">>
            \o When(Truthy(a.namespace), <<"namespace: '">> \o a.namespace \o <<"',">>)
            \o <<" cors })\n">> \o When(auth, <<"@UseGuards(WsJwtGuard)">>)
            \o <<"\nexport class ">> \o gatewayName \o <<"Gateway { logger = new Logger(">>
            \o gatewayName \o <<"Gateway.name); handleConnection() handleDisconnect()\n  ">>
            \o L.eventHandlers \o <<"\n  ">>
            \o When(rooms, <<"@SubscribeMessage('room:join') handleJoinRoom() @SubscribeMessage('room:leave') handleLeaveRoom()">>)
            \o <<" sendToClient() broadcast() getConnectedClientsCount() }\n">>)])
      [] pc = 3 -> Run(IF auth
            THEN [L EXCEPT !.files = Put(@, <<"ws-jwt.guard.ts">>,
                    <<"import { CanActivate, ExecutionContext, Injectable } from '@nestjs/common';\n">>
                    \o <<"@Injectable() export class WsJwtGuard implements CanActivate { ... }\n">>)]
            ELSE L)
      [] pc = 4 -> Run([L EXCEPT !.files = Put(@, L.lowerName \o <<".module.ts">>,
            <<"import { Module } from '@nestjs/common';\n">>
            \o <<"import { ">> \o gatewayName \o <<"Gateway } from './">> \o L.lowerName \o <<".gateway';">>
            \o <<"\n">> \o When(auth, <<"import { JwtModule } from '@nestjs/jwt';">>)
            \o <<"\n@Module({ ">> \o When(auth, <<"imports: [JwtModule.register({ secret })],">>)
            \o <<" providers: [">> \o gatewayName \o <<"Gateway], exports: [">> \o gatewayName
            \o <<"Gateway] })\nexport class ">> \o gatewayName \o <<"Module {}\n">>)])
      [] pc = 5 -> Run([L EXCEPT !.files = Put(@, <<"use-socket.hook.ts">>,
            <<"import { useEffect, useState, useCallback } from 'react';\n">>
            \o <<"export function useSocket(options = {}) { const { namespace = '">>
            \o OrElse(a.namespace, <<"/">>) \o <<"', token, autoConnect = true } = options; ... }\n">>)])
      [] OTHER -> Ret(L, [success |-> TRUE, data |-> L.files,
            metadata |-> [gateway |-> gatewayName, namespace |-> a.namespace,
                          events |-> [i \in DOMAIN a.events |-> a.events[i].name],
                          generatedFiles |-> Keys(L.files)]])

\* JSON.stringify of an array of strings
JsonStrings(xs) ==
    LET Quoted(x) == <<"\"">> \o x \o <<"\"">>
    IN  <<"[">> \o Join(Map(xs, Quoted), <<",">>) \o <<"]">>

\* s.replace(/^\//, '')
StripLeadingSlash(s) == IF s # <<>> /\ s[1] = "/" THEN Tail(s) ELSE s

(***************************************************************************)
(* backend/integrations/s3_upload                                          *)
(***************************************************************************)
S3UploadSchema(a) ==
    a.provider \in {<<"s3">>, <<"r2">>, <<"supabase">>} /\ a.generatePresignedUrls \in BOOL
S3UploadInputs ==
    [provider : {<<"s3">>, <<"r2">>, <<"supabase">>, <<"gcs">>}, bucketEnvVar : {<<"S3_BUCKET">>},
     generatePresignedUrls : BOOL,
     allowedTypes : {<<>>, << <<"image/jpeg">>, <<"image/png">> >>}]

s3_upload_handler(pc, a, L, t) ==
    LET presigned == a.generatePresignedUrls = TRUE
    IN
    CASE pc = 0 -> Run([files |-> <<>>])
      [] pc = 1 -> Run([L EXCEPT !.files = Put(@, <<"upload.module.ts">>,
            <<"import { Module } from '@nestjs/common';\n">>
            \o <<"import { UploadService } from './upload.service';">> \o <<"\n">>
            \o <<"import { UploadController } from './upload.controller';">>
            \o <<"\n@Module({ providers: [UploadService], controllers: [UploadController] })\nexport class UploadModule {}">>)])
      [] pc = 2 -> Run([L EXCEPT !.files = Put(@, <<"upload.service.ts">>,
            <<"import { Injectable, BadRequestException } from '@nestjs/common';\n">>
            \o <<"@Injectable() export class UploadService { private bucket = process.env.">>
            \o a.bucketEnvVar \o <<"; private allowedTypes = ">> \o JsonStrings(a.allowedTypes)
            \o <<"; constructor() { this.s3 = new S3Client({ region, ">>
            \o When(a.provider = <<"r2">>, <<"endpoint: process.env.R2_ENDPOINT,">>)
            \o <<" credentials }); } async upload() {} ">>
            \o When(presigned, <<"async getPresignedUploadUrl() {} async getPresignedDownloadUrl() {}">>)
            \o <<" async delete() {} }">>)])
      [] pc = 3 -> Run([L EXCEPT !.files = Put(@, <<"upload.controller.ts">>,
            <<"import { Controller, Post } from '@nestjs/common';\n">>
            \o <<"import { UploadService } from './upload.service';">>
            \o <<"\n@Controller('upload') export class UploadController { @Post() upload() {} ">>
            \o When(presigned, <<"@Get('presigned') getPresigned() { return this.uploadService.getPresignedUploadUrl(); }">>)
            \o <<" @Delete(':key') delete() {} }">>)])
      [] OTHER -> Ret(L, [success |-> TRUE, data |-> L.files,
            metadata |-> [provider |-> a.provider, generatedFiles |-> Keys(L.files)]])

(***************************************************************************)
(* backend/integrations/google_oauth                                       *)
(***************************************************************************)
GoogleOAuthSchema(a) == \A i \in DOMAIN a.scopes : a.scopes[i] # Undefined
GoogleOAuthInputs ==
    [strategyName : {<<"google">>}, callbackPath : {<<"/auth/google/callback">>},
     frontendCallbackUrl : {<<"http://localhost:5173/auth/callback">>},
     scopes : {<<>>, << <<"email">>, <<"profile">> >>, <<Undefined>>}]

google_oauth_handler(pc, a, L, t) ==
    CASE pc = 0 -> Run([files |-> <<>>])
      [] pc = 1 -> Run([L EXCEPT !.files = Put(@, <<"google.strategy.ts">>,
            <<"import { Injectable } from '@nestjs/common';\n">>
            \o <<"@Injectable() export class GoogleStrategy extends PassportStrategy(Strategy, '">>
            \o a.strategyName \o <<"') { constructor() { super({ callbackURL: process.env.API_URL + '">>
            \o a.callbackPath \o <<"', scope: ">> \o JsonStrings(Map(a.scopes, Interp))
            \o <<", }); } async validate() {} }">>)])
      [] pc = 2 -> Run([L EXCEPT !.files = Put(@, <<"google-auth.guard.ts">>,
            <<"import { Injectable } from '@nestjs/common';\n">>
            \o <<"@Injectable() export class GoogleAuthGuard extends AuthGuard('">>
            \o a.strategyName \o <<"') {}">>)])
      [] pc = 3 -> Run([L EXCEPT !.files = Put(@, <<"auth.controller.ts">>,
            <<"import { Controller, Get, Req, Res, UseGuards } from '@nestjs/common';\n">>
            \o <<"import { GoogleAuthGuard } from './google-auth.guard';">> \o <<"\n">>
            \o <<"import { AuthService } from './auth.service';">>
            \o <<"\n@Controller('auth') export class AuthController { googleAuth() {} googleCallback() { res.redirect(">>
            \o a.frontendCallbackUrl \o <<"?${params}); } }">>)])
      [] pc = 4 -> Run([L EXCEPT !.files = Put(@, <<"auth.service.ts">>,
            <<"import { Injectable } from '@nestjs/common';\n">>
            \o <<"@Injectable() export class AuthService { async handleGoogleLogin(googleUser) {} }">>)])
      [] pc = 5 -> Run([L EXCEPT !.files = Put(@, <<"auth.module.ts">>,
            <<"import { Module } from '@nestjs/common';\n">>
            \o <<"import { GoogleStrategy } from './google.strategy';">> \o <<"\n">>
            \o <<"import { AuthController } from './auth.controller';">> \o <<"\n">>
            \o <<"import { AuthService } from './auth.service';">>
            \o <<"\n@Module({}) export class AuthModule {}">>)])
      [] OTHER -> Ret(L, [success |-> TRUE, data |-> L.files,
            metadata |-> [strategyName |-> a.strategyName, callbackPath |-> a.callbackPath,
                          generatedFiles |-> Keys(L.files)]])

(***************************************************************************)
(* backend/logic/file_upload_manager                                       *)
(***************************************************************************)
FileUploadManagerSchema(a) == a.provider \in {<<"cloudinary">>, <<"s3">>}
FileUploadManagerInputs ==
    [provider : {<<"cloudinary">>, <<"s3">>, <<"azure">>}, folderName : {<<"uploads">>},
     allowedMimeTypes : {<<>>, << <<"image/jpeg">> >>}]

file_upload_manager_handler(pc, a, L, t) ==
    LET cloudinary == a.provider = <<"cloudinary">>
    IN
    CASE pc = 0 -> Run([serviceCode |-> <<>>, providerSetup |-> <<>>])
      [] pc = 1 -> Run([L EXCEPT !.serviceCode =
            IF cloudinary
            THEN <<"import { Injectable } from '@nestjs/common';\nimport { v2 as cloudinary } from 'cloudinary';\n">>
                 \o <<"import { CloudinaryResponse } from './cloudinary-response';">>
                 \o <<" // Interface needed\n@Injectable() export class CloudinaryService { uploadFile() { folder: '">>
                 \o a.folderName \o <<"' } }\n">>
            ELSE <<"// AWS S3 implementation would go here using @aws-sdk/client-s3">>])
      [] pc = 2 -> Run([L EXCEPT !.providerSetup =
            When(cloudinary, <<"\nexport const CloudinaryProvider = { provide: 'CLOUDINARY', useFactory };">>)])
      [] OTHER -> Ret(L, [success |-> TRUE,
            data |-> << <<(<<"file-upload.service.ts">>), L.serviceCode>>,
                        <<(<<"provider.ts">>), L.providerSetup>> >>,
            metadata |-> [provider |-> a.provider,
                          dependencies |-> IF cloudinary
                                           THEN <<"cloudinary", "streamifier", "@types/streamifier">>
                                           ELSE <<"@aws-sdk/client-s3">>]])

(***************************************************************************)
(* backend/logic/gemini_integration                                        *)
(***************************************************************************)
\* every field has a default and the model passes well-typed values only
GeminiIntegrationSchema(a) == TRUE
GeminiIntegrationInputs ==
    [serviceName : {<<"GeminiService">>}, apiKeyEnvVar : {<<"GEMINI_API_KEY">>},
     modelName : {<<"gemini-pro">>, <<"gemini-pro-vision">>}]

gemini_integration_handler(pc, a, L, t) ==
    CASE pc = 0 -> Run([code |-> <<>>])
      [] pc = 1 -> Run([L EXCEPT !.code =
            <<"import { Injectable, InternalServerErrorException } from '@nestjs/common';\n">>
            \o <<"@Injectable() export class ">> \o a.serviceName
            \o <<" { constructor() { const apiKey = this.configService.get('">> \o a.apiKeyEnvVar
            \o <<"'); if (!apiKey) { throw new Error('">> \o a.apiKeyEnvVar
            \o <<" is not defined in environment variables'); } this.model = getGenerativeModel({ model: '">>
            \o a.modelName \o <<"' }); } generateText() generateChat() }\n">>])
      [] OTHER -> Ret(L, [success |-> TRUE, data |-> L.code,
            metadata |-> [dependencies |-> <<"@google/generative-ai", "@nestjs/config">>,
                          envVar |-> a.apiKeyEnvVar]])

(***************************************************************************)
(* backend/logic/mercado_pago_integration                                  *)
(***************************************************************************)
MercadoPagoIntegrationSchema(a) == a.useNestJs \in BOOL /\ a.includeItemsSample \in BOOL
MercadoPagoIntegrationInputs ==
    [accessTokenEnvVar : {<<"MERCADOPAGO_ACCESS_TOKEN">>},
     webhookPath : {<<"/", "webhooks/mercadopago">>, <<"hooks/mp">>},
     useNestJs : BOOL, includeItemsSample : BOOL]

mercado_pago_integration_handler(pc, a, L, t) ==
    CASE pc = 0 -> Run([itemsCode |-> <<>>, nestJsCode |-> <<>>, genericCode |-> <<>>])
      [] pc = 1 -> Run([L EXCEPT !.itemsCode =
            When(a.includeItemsSample, <<"\n          items: [ { id: '1234', title: 'Product Name', quantity: 1, unit_price: 100 } ],">>)])
      [] pc = 2 -> Run([L EXCEPT !.nestJsCode =
            <<"@Injectable() export class MercadoPagoService { constructor() { accessToken: process.env.">>
            \o a.accessTokenEnvVar \o <<" || '' } async createPreference() { body: {\n          ">>
            \o L.itemsCode \o <<" back_urls, notification_url: ${process.env.API_URL}">> \o a.webhookPath
            \o <<" } } async handleWebhook(query) {} }\n@Controller('payments') export class MercadoPagoController { @Post('">>
            \o StripLeadingSlash(a.webhookPath) \o <<"') handleWebhook() {} }">>])
      [] pc = 3 -> Run([L EXCEPT !.genericCode =
            <<"const client = new MercadoPagoConfig({ accessToken: process.env.">>
            \o a.accessTokenEnvVar \o <<" || '' });\nexport const createPreference = async () => { body: {\n          ">>
            \o L.itemsCode \o <<" back_urls, notification_url: ${process.env.API_URL}">> \o a.webhookPath
            \o <<" } };\nexport const handleWebhook = async (query) => {};">>])
      [] OTHER -> Ret(L, [success |-> TRUE,
            data |-> IF a.useNestJs THEN Trim(L.nestJsCode) ELSE Trim(L.genericCode),
            metadata |-> [description |-> <<"Mercado Pago Integration Code v2">>,
                          type |-> IF a.useNestJs THEN <<"NestJS Module">> ELSE <<"Generic TS">>,
                          sdkVersion |-> <<"mercadopago (v2)">>]])

(***************************************************************************)
(* backend/scheduling/cron_job_scheduler                                   *)
(***************************************************************************)
CronJobSchedulerSchema(a) ==
    /\ \A i \in DOMAIN a.jobs : a.jobs[i].name # Undefined /\ a.jobs[i].cron # Undefined
    /\ a.withLocking \in BOOL
CronJobSchedulerInputs ==
    LET Job(n, c) == [name |-> n, cron |-> c, description |-> Undefined]
    IN  [serviceName : {<<"Tasks">>},
         jobs : {<<>>, <<Job(<<"cleanupExpired">>, <<"0 0 * * *">>)>>,
                 <<Job(<<"a">>, <<"* * * * *">>), Job(<<"b">>, <<"0 * * * *">>)>>,
                 <<Job(<<"noCron">>, Undefined)>>},
         withLocking : BOOL]

\* the callback of jobs.map
cron_jobMethod(job) ==
    <<"\n  @Cron('">> \o Interp(job.cron) \o <<"')\n  async ">> \o Interp(job.name)
    \o <<"() {\n    this.logger.log('">> \o Interp(job.name) \o <<": Started');\n  }">>

cron_job_scheduler_handler(pc, a, L, t) ==
    CASE pc = 0 -> Run([files |-> <<>>, lowerName |-> toLowerCase(a.serviceName), jobMethods |-> <<>>])
      [] pc = 1 -> Run([L EXCEPT !.jobMethods = Join(Map(a.jobs, cron_jobMethod), <<"\n">>)])
      [] pc = 2 -> Run([L EXCEPT !.files = Put(@, L.lowerName \o <<".service.ts">>,
            <<"import { Injectable, Logger } from '@nestjs/common';\nimport { Cron } from '@nestjs/schedule';\n\n@Injectable()\nexport class ">>
            \o a.serviceName \o <<"Service {\n  private readonly logger = new Logger(">>
            \o a.serviceName \o <<"Service.name);\n  ">> \o L.jobMethods \o <<"\n}">>)])
      [] pc = 3 -> Run([L EXCEPT !.files = Put(@, L.lowerName \o <<".module.ts">>,
            <<"import { Module } from '@nestjs/common';\nimport { ScheduleModule } from '@nestjs/schedule';\n">>
            \o <<"import { ">> \o a.serviceName \o <<"Service } from './">> \o L.lowerName \o <<".service';">>
            \o <<"\n\n@Module({ imports: [ScheduleModule.forRoot()], providers: [">> \o a.serviceName
            \o <<"Service], exports: [">> \o a.serviceName \o <<"Service], })\nexport class ">>
            \o a.serviceName \o <<"Module {}">>)])
      [] OTHER -> Ret(L, [success |-> TRUE, data |-> L.files,
            metadata |-> [serviceName |-> a.serviceName,
                          jobs |-> [i \in DOMAIN a.jobs |-> a.jobs[i].name]]])

(***************************************************************************)
(* backend/security/access_list_manager                                    *)
(***************************************************************************)
\* (?:25[0-5]|2[0-4][0-9]|[01]?[0-9][0-9]?) on one lexeme
IsOctet(c) ==
    \/ \E n \in 0 .. 255 : c = ToString(n)
    \/ \E n \in 0 .. 99 : c = "0" \o ToString(n)
    \/ \E n \in 0 .. 9 : c = "00" \o ToString(n)
\* ^(octet\.){3}octet$ : an address is the lexemes o.o.o.o
IsIpv4(x) ==
    /\ Len(x) = 7
    /\ \A i \in {1, 3, 5, 7} : IsOctet(x[i])
    /\ \A i \in {2, 4, 6} : x[i] = "."

AccessListManagerSchema(a) ==
    /\ a.type \in {<<"whitelist">>, <<"blacklist">>}
    /\ \A i \in DOMAIN a.ips : IsIpv4(a.ips[i])
    /\ a.action \in {<<"allow">>, <<"deny">>, <<"log_only">>}
AccessListManagerInputs ==
    [type : {<<"whitelist">>, <<"blacklist">>, Undefined},
     ips : {<<>>, << <<"10", ".", "0", ".", "0", ".", "1">> >>,
            << <<"192", ".", "168", ".", "01", ".", "255">>, <<"10", ".", "0", ".", "0", ".", "1">> >>,
            << <<"256", ".", "1", ".", "1", ".", "1">> >>, << <<"localhost">> >>},
     action : {<<"allow">>, <<"deny">>, <<"log_only">>}]

access_list_manager_handler(pc, a, L, t) ==
    LET whitelist == a.type = <<"whitelist">>
        logOnly == a.action = <<"log_only">>
    IN
    CASE pc = 0 -> Run([guardName |-> IF whitelist THEN <<"IpWhitelistGuard">> ELSE <<"IpBlacklistGuard">>,
                        ipsString |-> JsonStrings(a.ips), code |-> <<>>])
      [] pc = 1 -> Run([L EXCEPT !.code =
            <<"import { Injectable, CanActivate } from '@nestjs/common';\n@Injectable()\nexport class ">>
            \o L.guardName \o <<" implements CanActivate {\n  logger = new Logger(">> \o L.guardName
            \o <<".name);\n  private readonly restrictedIps = ">> \o L.ipsString
            \o <<";\n  canActivate(context) {\n    ">>
            \o (IF whitelist
                THEN <<"// Whitelist Logic: Allow ONLY if in list\n    if (!isAllowed) {">>
                     \o (IF logOnly
                         THEN <<"warn('Access from unauthorized IP'); return true;">>
                         ELSE <<"warn('Blocked access from unauthorized IP'); throw new ForbiddenException('Access denied from your IP address');">>)
                     \o <<"}\n    return true;">>
                ELSE <<"// Blacklist Logic: Deny if IN list\n    if (isBlocked) {">>
                     \o (IF logOnly
                         THEN <<"warn('Detected blacklisted IP'); return true;">>
                         ELSE <<"warn('Blocked blacklisted IP'); throw new ForbiddenException('Your IP address has been blocked');">>)
                     \o <<"}\n    return true;">>)
            \o <<"\n  }\n}\n">>])
      [] OTHER -> Ret(L, [success |-> TRUE, data |-> L.code,
            metadata |-> [guard |-> L.guardName,
                          config |-> [type |-> a.type, count |-> Len(a.ips), action |-> a.action]]])

(***************************************************************************)
(* backend/security/role_guard_generator                                   *)
(***************************************************************************)
RoleGuardGeneratorSchema(a) == \A i \in DOMAIN a.defaultRoles : a.defaultRoles[i] # Undefined
RoleGuardGeneratorInputs ==
    [rolesEnumName : {<<"UserRole">>},
     defaultRoles : {<<>>, << <<"admin">>, <<"user">> >>, << <<"super admin">> >>,
                     << <<"admin">>, <<"ADMIN">> >>},
     jwtPayloadType : {<<"JwtPayload">>}]

\* the callback with the value lower-cased as well
role_enumMemberLowercased(r) ==
    <<"  ">> \o toUpperCase(r) \o <<" = '">> \o toLowerCase(r) \o <<"',">>

\* the callback of defaultRoles.map
role_enumMember(r) == <<"  ">> \o toUpperCase(r) \o <<" = '">> \o r \o <<"',">>

role_guard_generator_handler(pc, a, L, t) ==
    CASE pc = 0 -> Run([decoratorCode |-> <<>>, enumCode |-> <<>>, guardCode |-> <<>>])
      [] pc = 1 -> Run([L EXCEPT !.decoratorCode =
            <<"import { SetMetadata } from '@nestjs/common';\n">>
            \o <<"import { ">> \o a.rolesEnumName \o <<" } from './roles.enum';">>
            \o <<"\n\nexport const ROLES_KEY = 'roles';\nexport const Roles = (...roles: ">>
            \o a.rolesEnumName \o <<"[]) => SetMetadata(ROLES_KEY, roles);\n">>])
      [] pc = 2 -> Run([L EXCEPT !.enumCode =
            <<"export enum ">> \o a.rolesEnumName \o <<" {\n">>
            \o Join(Map(a.defaultRoles, role_enumMember), <<"\n">>) \o <<"\n}">>])
      [] pc = 3 -> Run([L EXCEPT !.guardCode =
            <<"import { Injectable, CanActivate, ExecutionContext, ForbiddenException } from '@nestjs/common';\n">>
            \o <<"import { Reflector } from '@nestjs/core';\n">>
            \o <<"import { ROLES_KEY, ">> \o a.rolesEnumName \o <<" } from './roles.decorator';">>
            \o <<"\n">>
            \o <<"import { ">> \o a.jwtPayloadType \o <<" } from '../auth/interfaces/jwt-payload.interface';">>
            \o <<" // Adjust path as needed\n\n@Injectable()\nexport class RolesGuard implements CanActivate { getAllAndOverride<">>
            \o a.rolesEnumName \o <<"[]>(ROLES_KEY) }\n">>])
      [] OTHER -> Ret(L, [success |-> TRUE,
            data |-> << <<(<<"roles.enum.ts">>), L.enumCode>>,
                        <<(<<"roles.decorator.ts">>), L.decoratorCode>>,
                        <<(<<"roles.guard.ts">>), L.guardCode>> >>,
            metadata |-> [guardName |-> <<"RolesGuard">>, strategies |-> <<"jwt", "reflector">>]])

(***************************************************************************)
(* backend/security/token_blacklist                                        *)
(***************************************************************************)
\* every field has a default and the model passes well-typed values only
TokenBlacklistSchema(a) == TRUE
TokenBlacklistInputs ==
    [redisHost : {<<"localhost">>, <<"redis">>}, redisPort : {Whole(6379)},
     tokenExpirySeconds : {Whole(3600), Whole(0)}]

token_blacklist_handler(pc, a, L, t) ==
    CASE pc = 0 -> Run([serviceCode |-> <<>>, guardCode |-> <<>>, moduleSetup |-> <<>>])
      [] pc = 1 -> Run([L EXCEPT !.serviceCode =
            <<"import { Injectable, Inject, UnauthorizedException } from '@nestjs/common';\n">>
            \o <<"@Injectable() export class AuthService { async logout(token) { set(blacklist:${token}, true, ">>
            \o NumText(a.tokenExpirySeconds) \o <<" * 1000); } async isBlacklisted(token) {} }\n">>])
      [] pc = 2 -> Run([L EXCEPT !.guardCode =
            <<"import { Injectable, CanActivate, ExecutionContext, UnauthorizedException } from '@nestjs/common';\n">>
            \o <<"import { AuthService } from './auth.service';">>
            \o <<"\n\n@Injectable()\nexport class JwtBlacklistGuard implements CanActivate { ... }\n">>])
      [] pc = 3 -> Run([L EXCEPT !.moduleSetup =
            <<"\n// In your AuthModule or AppModule, ensure you import CacheModule with Redis store\n host: '">>
            \o a.redisHost \o <<"',\n port: ">>
            \o NumText(a.redisPort)
            \o <<",\n providers: [AuthService, JwtBlacklistGuard]\n">>])
      [] OTHER -> Ret(L, [success |-> TRUE,
            data |-> << <<(<<"auth.service.ts">>), L.serviceCode>>,
                        <<(<<"jwt-blacklist.guard.ts">>), L.guardCode>>,
                        <<(<<"setup-instructions.txt">>), L.moduleSetup>> >>,
            metadata |-> [integration |-> <<"Redis">>, cacheManager |-> <<"nestjs/cache-manager">>]])

(***************************************************************************)
(* backend/testing/e2e_test_builder                                        *)
(***************************************************************************)
E2ETestBuilderSchema(a) == a.routePrefix # Undefined
E2ETestBuilderInputs ==
    [targetModule : {<<"AppModule">>}, routePrefix : {<<"/users">>, <<>>, Undefined}]

e2e_test_builder_handler(pc, a, L, t) ==
    CASE pc = 0 -> Run([code |-> <<>>])
      [] pc = 1 -> Run([L EXCEPT !.code =
            <<"import { Test, TestingModule } from '@nestjs/testing';\nimport * as request from 'supertest';\n">>
            \o <<"import { ">> \o a.targetModule \o <<" } from './../src/app.module';">>
            \o <<"\n\ndescribe('">> \o a.targetModule \o <<" (e2e)', () => { imports: [">>
            \o a.targetModule \o <<"] it('">> \o Interp(a.routePrefix) \o <<" (GET)', () => get('">>
            \o Interp(a.routePrefix) \o <<"').expect(200)); it('">> \o Interp(a.routePrefix)
            \o <<" (POST) - creation', () => post('">> \o Interp(a.routePrefix)
            \o <<"').send({ name: 'Test E2E' }).expect(201)); });\n">>])
      [] OTHER -> Ret(L, [success |-> TRUE, data |-> L.code,
            metadata |-> [type |-> <<"e2e">>, library |-> <<"supertest">>]])

(***************************************************************************)
(* backend/testing/load_test_config                                        *)
(***************************************************************************)
\* z.string().url(): a text that starts with a scheme and has something after it
IsUrl(x) == x # Undefined /\ Len(x) >= 2 /\ x[1] \in {"http://", "https://", "ftp://"}
LoadTestConfigSchema(a) == IsUrl(a.targetUrl)
LoadTestConfigInputs ==
    [targetUrl : {<<"https://", "api.example.com">>, <<"api.example.com">>, <<>>},
     vus : {Whole(10), Whole(0)}, duration : {<<"30s">>}]

load_test_config_handler(pc, a, L, t) ==
    CASE pc = 0 -> Run([code |-> <<>>])
      [] pc = 1 -> Run([L EXCEPT !.code =
            <<"import http from 'k6/http';\nimport { sleep, check } from 'k6';\n\nexport const options = {\n  vus: ">>
            \o NumText(a.vus) \o <<",\n  duration: '">> \o a.duration
            \o <<"',\n  thresholds: { http_req_duration: ['p(95)<500'] },\n};\n\nexport default function () {\n  const res = http.get('">>
            \o a.targetUrl \o <<"');\n  check(res, {});\n  sleep(1);\n}\n">>])
      [] OTHER -> Ret(L, [success |-> TRUE, data |-> L.code,
            metadata |-> [tool |-> <<"k6">>, scenario |-> <<"simple-load-test">>]])

(***************************************************************************)
(* backend/testing/unit_test_generator                                     *)
(***************************************************************************)
UnitTestGeneratorSchema(a) == a.serviceName # Undefined
UnitTestGeneratorInputs ==
    [serviceName : {<<"Users", "Service">>, <<"Mailer">>, Undefined},
     dependencies : {<<>>, << <<"UsersRepository">> >>},
     methods : {<<>>, << <<"findAll">>, <<"create">> >>}]

\* s.replace(/Service$/, '')
StripServiceSuffix(s) ==
    IF s # <<>> /\ s[Len(s)] = "Service" THEN SubSeq(s, 1, Len(s) - 1) ELSE s

unit_test_generator_handler(pc, a, L, t) ==
    LET serviceName == Interp(a.serviceName)
        MockProvider(dep) == <<"\n    {\n      provide: ">> \o dep
                             \o <<",\n      useValue: { find: jest.fn(), create: jest.fn(), save: jest.fn(), },\n    }">>
        MethodTest(method) == <<"\n  describe('">> \o method
                              \o <<"', () => {\n    it('should be defined', () => {\n      expect(service.">>
                              \o method \o <<").toBeDefined();\n    });\n  });">>
        ImportHint(d) == <<"// import { ">> \o d \o <<" } from ...;">>
        LetDecl(d) == <<"let ">> \o toLowerCase(d) \o <<": ">> \o d \o <<";">>
        GetDep(d) == toLowerCase(d) \o <<" = module.get<">> \o d \o <<">(">> \o d \o <<");">>
    IN
    CASE pc = 0 -> Run([mockProviders |-> <<>>, methodTests |-> <<>>, code |-> <<>>])
      [] pc = 1 -> Run([L EXCEPT !.mockProviders = Join(Map(a.dependencies, MockProvider), <<",">>)])
      [] pc = 2 -> Run([L EXCEPT !.methodTests = Join(Map(a.methods, MethodTest), <<"\n">>)])
      [] pc = 3 -> Run([L EXCEPT !.code =
            <<"import { Test, TestingModule } from '@nestjs/testing';\n">>
            \o <<"import { ">> \o serviceName \o <<" } from './">>
            \o toLowerCase(StripServiceSuffix(serviceName)) \o <<".service';">> \o <<"\n">>
            \o Join(Map(a.dependencies, ImportHint), <<"\n">>)
            \o <<"\n\ndescribe('">> \o serviceName \o <<"', () => {\n  let service: ">> \o serviceName
            \o <<";\n  ">> \o Join(Map(a.dependencies, LetDecl), <<"\n">>)
            \o <<"\n\n  beforeEach(async () => { providers: [\n        ">> \o serviceName \o <<",\n        ">>
            \o L.mockProviders \o <<"\n      ] service = module.get<">> \o serviceName \o <<">(">>
            \o serviceName \o <<");\n    ">> \o Join(Map(a.dependencies, GetDep), <<"\n">>)
            \o <<"\n  });\n\n  it('should be defined', () => {});\n\n">> \o L.methodTests \o <<"\n});\n">>])
      [] OTHER -> Ret(L, [success |-> TRUE, data |-> L.code,
            metadata |-> [testFramework |-> <<"jest">>, targetService |-> a.serviceName]])

(***************************************************************************)
(* backend/database/migration_expert                                       *)
(***************************************************************************)
MigrationExpertSchema(a) == a.migrationName # Undefined
MigrationExpertInputs == [migrationName : {<<"CreateUsersTable">>, <<"AddIndex">>, Undefined}]

\* a body that calls Date.now() again where it builds the class name
migration_expert_rereads(pc, a, L, t) ==
    CASE pc = 0 -> Run([timestamp |-> t, className |-> <<>>, code |-> <<>>])
      [] pc = 1 -> Run([L EXCEPT !.className = Interp(a.migrationName) \o <<ToString(t)>>])
      [] pc = 2 -> Run([L EXCEPT !.code =
            <<"import { MigrationInterface, QueryRunner } from \"typeorm\";\n\nexport class ">>
            \o L.className \o <<" implements MigrationInterface {\n    name = '">> \o L.className
            \o <<"'\n\n    public async up(queryRunner) {}\n\n    public async down(queryRunner) {}\n}\n">>])
      [] OTHER -> Ret(L, [success |-> TRUE, data |-> L.code,
            metadata |-> [migrationClass |-> L.className, timestamp |-> L.timestamp]])

migration_expert_handler(pc, a, L, t) ==
    CASE pc = 0 -> Run([timestamp |-> t, className |-> <<>>, code |-> <<>>])
      [] pc = 1 -> Run([L EXCEPT !.className = Interp(a.migrationName) \o <<ToString(L.timestamp)>>])
      [] pc = 2 -> Run([L EXCEPT !.code =
            <<"import { MigrationInterface, QueryRunner } from \"typeorm\";\n\nexport class ">>
            \o L.className \o <<" implements MigrationInterface {\n    name = '">> \o L.className
            \o <<"'\n\n    public async up(queryRunner) {}\n\n    public async down(queryRunner) {}\n}\n">>])
      [] OTHER -> Ret(L, [success |-> TRUE, data |-> L.code,
            metadata |-> [migrationClass |-> L.className, timestamp |-> L.timestamp]])

(***************************************************************************)
(* backend/database/entity_creator                                         *)
(***************************************************************************)
\* new Set(...).add(x), in insertion order
SetAdd(xs, x) == IF Includes(xs, x) THEN xs ELSE Append(xs, x)
RECURSIVE SetAddAll(_, _)
SetAddAll(xs, ys) == IF ys = <<>> THEN xs ELSE SetAddAll(SetAdd(xs, Head(ys)), Tail(ys))

\* s.replace(piece, '') where piece is one lexeme: the first occurrence goes
RECURSIVE RemoveFirst(_, _)
RemoveFirst(s, piece) ==
    IF s = <<>> THEN <<>>
    ELSE IF Head(s) = piece THEN Tail(s)
    ELSE <<Head(s)>> \o RemoveFirst(Tail(s), piece)

RelationTypes == {<<"OneToMany">>, <<"ManyToOne">>, <<"OneToOne">>, <<"ManyToMany">>}
\* an omitted `relations` and an empty one take the same branches: both are <<>>;
\* an optional boolean is FALSE when omitted; a column default is tagged by its typeof
EntityCreatorSchema(a) ==
    /\ a.entityName # Undefined
    /\ \A i \in DOMAIN a.columns : a.columns[i].name # Undefined /\ a.columns[i].type # Undefined
    /\ \A i \in DOMAIN a.relations :
            a.relations[i].type \in RelationTypes /\ a.relations[i].targetEntity # Undefined
EntityCreatorInputs ==
    LET Col(n, ty, p, nl, d) == [name |-> n, type |-> ty, isPrimary |-> p, isNullable |-> nl, default |-> d]
        NoDefault == [typeof |-> "undefined", text |-> <<>>]
        Rel(ty, target, inv, jc) == [type |-> ty, targetEntity |-> target, inverseSide |-> inv, joinColumn |-> jc]
        id == Col(<<"id">>, <<"uuid">>, TRUE, FALSE, NoDefault)
    IN  [entityName : {<<"UserProfile">>}, tableName : {Undefined, <<"user_profiles">>},
         columns : {<<>>, <<id>>,
                    <<id, Col(<<"age">>, <<"int">>, FALSE, TRUE, [typeof |-> "number", text |-> <<"0">>])>>,
                    <<Col(<<"status">>, <<"varchar">>, FALSE, FALSE, [typeof |-> "string", text |-> <<"active">>])>>,
                    <<Col(<<"active">>, <<"boolean">>, FALSE, FALSE, [typeof |-> "boolean", text |-> <<"true">>]),
                      Col(<<"since">>, <<"timestamp">>, FALSE, FALSE, NoDefault)>>,
                    <<Col(<<"x">>, Undefined, FALSE, FALSE, NoDefault)>>},
         relations : {<<>>, <<Rel(<<"ManyToOne">>, <<"User">>, Undefined, TRUE)>>,
                      <<Rel(<<"OneToMany">>, <<"Order">>, <<"profile">>, FALSE),
                        Rel(<<"OneToOne">>, <<"User">>, Undefined, FALSE)>>,
                      <<Rel(<<"HasMany">>, <<"Order">>, Undefined, FALSE)>>}]

\* the callback of columns.map
entity_columnDefinition(col) ==
    LET o1 == IF col.isNullable THEN << <<"nullable: true">> >> ELSE <<>>
        defVal == IF col.default.typeof = "string"
                  THEN <<"'">> \o col.default.text \o <<"'">> ELSE col.default.text
        optionsParts == IF col.default.typeof # "undefined"
                        THEN Append(o1, <<"default: ">> \o defVal) ELSE o1
        options == IF Len(optionsParts) > 0
                   THEN <<"{ ">> \o Join(optionsParts, <<", ">>) \o <<" }">> ELSE <<>>
        t1 == IF col.type \in {<<"int">>, <<"integer">>, <<"float">>, <<"decimal">>, <<"double">>}
              THEN <<"number">> ELSE <<"string">>
        t2 == IF col.type \in {<<"boolean">>, <<"bool">>} THEN <<"boolean">> ELSE t1
        tsType == IF col.type \in {<<"timestamp">>, <<"date">>, <<"datetime">>} THEN <<"Date">> ELSE t2
    IN  IF col.isPrimary
        THEN <<"\n  @PrimaryGeneratedColumn('uuid')\n  ">> \o Interp(col.name) \o <<": string;">>
        ELSE <<"\n  @Column('">> \o Interp(col.type) \o <<"', ">> \o options \o <<")\n  ">>
             \o Interp(col.name) \o <<": ">> \o tsType \o <<";">>

\* the callback of relations.map
entity_relationDefinition(rel) ==
    LET decoratorArgs == <<"() => ">> \o Interp(rel.targetEntity)
            \o When(Truthy(rel.inverseSide), <<", (related) => related.">> \o rel.inverseSide)
        withJoin == <<"\n  @">> \o rel.type \o <<"(">> \o decoratorArgs \o <<")\n  ">>
            \o <<"@JoinColumn()\n  ">>
            \o toLowerCase(Interp(rel.targetEntity)) \o <<": ">> \o Interp(rel.targetEntity) \o <<";">>
        propCode == IF ~rel.joinColumn THEN RemoveFirst(withJoin, "@JoinColumn()\n  ") ELSE withJoin
    IN  IF rel.type = <<"OneToMany">>
        THEN <<"\n  @">> \o rel.type \o <<"(">> \o decoratorArgs \o <<")\n  ">>
             \o toLowerCase(Interp(rel.targetEntity)) \o <<"s: ">> \o Interp(rel.targetEntity) \o <<"[];">>
        ELSE propCode

entity_creator_handler(pc, a, L, t) ==
    LET relations == a.relations
        SomeJoin == \E i \in DOMAIN relations : relations[i].joinColumn
    IN
    CASE pc = 0 -> Run([imports |-> << <<"Entity">>, <<"PrimaryGeneratedColumn">>, <<"Column">>,
                                       <<"CreateDateColumn">>, <<"UpdateDateColumn">> >>,
                        importString |-> <<>>, relationImports |-> <<>>, columnDefinitions |-> <<>>,
                        relationDefinitions |-> <<>>, tableOption |-> <<>>, code |-> <<>>])
      [] pc = 1 -> Run(IF Len(relations) > 0
            THEN [L EXCEPT !.imports =
                    LET added == SetAddAll(@, [i \in DOMAIN relations |-> relations[i].type])
                    IN  IF SomeJoin THEN SetAdd(added, <<"JoinColumn">>) ELSE added]
            ELSE L)
      [] pc = 2 -> Run([L EXCEPT !.importString =
            <<"import { ">> \o Join(L.imports, <<", ">>) \o <<" } from 'typeorm';">>])
      [] pc = 3 -> Run([L EXCEPT !.columnDefinitions =
            Join(Map(a.columns, entity_columnDefinition), <<"\n">>)])
      [] pc = 4 -> Run([L EXCEPT !.relationDefinitions =
            Join(Map(relations, entity_relationDefinition), <<"\n">>)])
      [] pc = 5 -> Run([L EXCEPT !.tableOption =
            When(Truthy(a.tableName), <<"name: '">> \o a.tableName \o <<"'">>)])
      [] pc = 6 -> Run([L EXCEPT !.code =
            L.importString \o <<"\n\n@Entity({ ">> \o L.tableOption \o <<" })\nexport class ">>
            \o Interp(a.entityName) \o <<" {\n">> \o L.columnDefinitions \o <<"\n">> \o L.relationDefinitions
            \o <<"\n\n  @CreateDateColumn()\n  createdAt: Date;\n\n  @UpdateDateColumn()\n  updatedAt: Date;\n}\n">>])
      [] OTHER -> Ret(L, [success |-> TRUE, data |-> L.code,
            metadata |-> [entity |-> a.entityName,
                          table |-> OrElse(a.tableName, toLowerCase(a.entityName)),
                          typeormVersion |-> <<"0.3.x">>]])

\* needle occurs inside the lexeme tok (on the lexemes the model enumerates)
Within(needle, tok) ==
    \/ tok = needle
    \/ <<needle, tok>> \in
        {<<"use", "useUsers.ts">>, <<"use", "useState">>, <<"use", "useEffect(() => {">>,
         <<"use", "useMemo">>, <<"use", "'use client'">>, <<"use", "function useUsers(">>,
         <<"useEffect", "useEffect(() => {">>,
         <<"window.", "window.location">>, <<"return", "return data;">>,
         <<".map(", "items.map(">>, <<".filter(", "items.filter(">>,
         <<"useMemo", "useMemo(() => { })">>,
         <<"empty", "empty state for orders">>, <<"hero", "hero section for saas">>,
         <<"lucide-react", "import { Sparkles, ArrowRight } from 'lucide-react';\n">>,
         <<"lucide-react", "import { X } from 'lucide-react';">>,
         <<"hover:", "hover:bg-accent">>,
         <<"hover:", " hover:opacity-90 transition-opacity">>}
\* String.prototype.includes on a text
Contains(s, needle) == \E i \in DOMAIN s : Within(needle, s[i])
\* String.prototype.startsWith on a text
StartsWith(s, prefix) == s # <<>> /\ s[1] = prefix

(***************************************************************************)
(* frontend/infrastructure/auth_session_manager                            *)
(***************************************************************************)
\* storeName and loginPath have defaults, the two import paths are optional
AuthSessionManagerSchema(a) == TRUE
AuthSessionManagerInputs ==
    [storeName : {<<"useAuthStore">>}, loginPath : {<<"/login">>, <<"/">>},
     axiosInstancePath : {Undefined, <<"@/lib/axios">>},
     userTypeImport : {Undefined, <<"@/types/user">>}]

auth_session_manager_handler(pc, a, L, t) ==
    LET axios == Truthy(a.axiosInstancePath)
    IN
    CASE pc = 0 -> Run([axiosImport |-> <<>>, userType |-> <<>>, code |-> <<>>])
      [] pc = 1 -> Run([L EXCEPT !.axiosImport =
            When(axios, <<"import api from '">> \o a.axiosInstancePath \o <<"';">>)])
      [] pc = 2 -> Run([L EXCEPT !.userType =
            IF Truthy(a.userTypeImport)
            THEN <<"import { User } from '">> \o a.userTypeImport \o <<"';">>
            ELSE <<"type User = any;">>])
      [] pc = 3 -> Run([L EXCEPT !.code =
            <<"\n", "import { create } from 'zustand';\nimport { persist, createJSONStorage } from 'zustand/middleware';\n">>
            \o L.userType \o <<"\n">> \o L.axiosImport
            \o <<"\n\ninterface AuthState {}\n\nexport const ">> \o a.storeName
            \o <<" = create<AuthState>()(persist((set) => ({ login: (user, token) => { ">>
            \o (IF axios THEN <<"api.defaults.headers.common['Authorization'] = Bearer ${token};">>
                ELSE <<"// NOTE: Remember to set your axios default authorization header here">>)
            \o <<" }, logout: () => { ">>
            \o (IF axios THEN <<"delete api.defaults.headers.common['Authorization'];">>
                ELSE <<"// NOTE: Remember to clear your axios default authorization header here">>)
            \o <<" window.location.href = '">> \o a.loginPath
            \o <<"'; } }), { name: 'auth-storage' }));", "\n">>])
      [] OTHER -> Ret(L, [success |-> TRUE, data |-> Trim(L.code),
            metadata |-> [description |-> <<"Robust Auth Store with Clean Slate Logout Strategy">>,
                          technologies |-> <<"zustand", "localstorage">>,
                          strategy |-> <<"clean-slate">>]])

(***************************************************************************)
(* frontend/infrastructure/auth_guard                                      *)
(***************************************************************************)
\* protectedRoutes: z.record(z.string(), z.array(z.string())), as its entries
AuthGuardSchema(a) ==
    \A i \in DOMAIN a.protectedRoutes :
        \A j \in DOMAIN a.protectedRoutes[i][2] : a.protectedRoutes[i][2][j] # Undefined
AuthGuardInputs ==
    [protectedRoutes : {<<>>,
                        << <<(<<"/admin">>), << <<"admin">> >> >> >>,
                        << <<(<<"/admin">>), << <<"admin">> >> >>,
                           <<(<<"/dashboard">>), << <<"admin">>, <<"user">> >> >> >>,
                        << <<(<<"/admin">>), <<Undefined>> >> >>}]

auth_guard_handler(pc, a, L, t) ==
    LET RouteCheck(e) ==
            <<"\n    if (req.nextUrl.pathname.startsWith('">> \o e[1] \o <<"')) {\n      if (!token || !">>
            \o JsonStrings(Map(e[2], Interp))
            \o <<".includes(token.role as string)) {\n         return NextResponse.redirect(new URL('/unauthorized', req.url));\n      }\n    }">>
        Matcher(e) == <<"'">> \o e[1] \o <<"/:path*'">>
    IN
    CASE pc = 0 -> Run([routeChecks |-> <<>>, middlewareCode |-> <<>>])
      [] pc = 1 -> Run([L EXCEPT !.routeChecks = Join(Map(a.protectedRoutes, RouteCheck), <<"\n">>)])
      [] pc = 2 -> Run([L EXCEPT !.middlewareCode =
            <<"\n", "import { withAuth } from \"next-auth/middleware\";\nimport { NextResponse } from \"next/server\";\n\nexport default withAuth(function middleware(req) {\n">>
            \o L.routeChecks
            \o <<"\n\n    return NextResponse.next();\n  });\n\nexport const config = {\n  matcher: [">>
            \o Join(Map(a.protectedRoutes, Matcher), <<", ">>) \o <<"],\n};\n">>])
      [] OTHER -> Ret(L, [success |-> TRUE, data |-> L.middlewareCode,
            metadata |-> [securityLevel |-> <<"role-based">>,
                          framework |-> <<"next-auth-v4-middleware">>]])

(***************************************************************************)
(* frontend/infrastructure/theme_switcher                                  *)
(***************************************************************************)
ThemeSwitcherSchema(a) == a.defaultTheme \in {<<"light">>, <<"dark">>, <<"system">>}
ThemeSwitcherInputs ==
    [defaultTheme : {<<"light">>, <<"dark">>, <<"system">>, <<"sepia">>},
     storageKey : {<<"theme">>}, generateToggle : BOOL]

theme_switcher_handler(pc, a, L, t) ==
    CASE pc = 0 -> Run([files |-> <<>>])
      [] pc = 1 -> Run([L EXCEPT !.files = Put(@, <<"theme-provider.tsx">>,
            <<"\"use client\";\nimport { createContext, useContext, useEffect, useState } from \"react\";\n">>
            \o <<"export function ThemeProvider({ children }) { useState<Theme>(\"">> \o a.defaultTheme
            \o <<"\"); localStorage.getItem(\"">> \o a.storageKey \o <<"\"); localStorage.setItem(\"">>
            \o a.storageKey \o <<"\", theme); }\nexport function useTheme() {}">>)])
      [] pc = 2 -> Run(IF a.generateToggle
            THEN [L EXCEPT !.files = Put(@, <<"theme-toggle.tsx">>,
                    <<"\"use client\";\n">> \o <<"import { useTheme } from \"./theme-provider\";">>
                    \o <<"\nimport { Button } from \"@/components/ui/button\";\nexport function ThemeToggle() {}">>)]
            ELSE L)
      [] OTHER -> Ret(L, [success |-> TRUE, data |-> L.files,
            metadata |-> [defaultTheme |-> a.defaultTheme, generatedFiles |-> Keys(L.files)]])

(***************************************************************************)
(* frontend/infrastructure/component_optimizer                             *)
(***************************************************************************)
ComponentOptimizerSchema(a) == a.code # Undefined /\ a.fileName # Undefined
ComponentOptimizerInputs ==
    [code : {<<>>, <<"export default function Page() {}">>,
             <<"'use client'", "export default function Page() {}">>,
             <<" ", "\"use client\"", "useState", "onClick">>,
             <<"useEffect(() => {", "window.location">>,
             <<"onClick">>, <<"localStorage">>, Undefined},
     fileName : {<<"Page.tsx">>}]

component_optimizer_handler(pc, a, L, t) ==
    LET code == a.code
        Some(xs) == \E x \in xs : Contains(code, x)
    IN
    CASE pc = 0 -> Run([issues |-> <<>>, recommendedType |-> <<"server">>, reasoning |-> <<>>,
                        hasClientHooks |-> FALSE, hasEventHandlers |-> FALSE,
                        hasBrowserAPIs |-> FALSE, hasUseClient |-> FALSE])
      [] pc = 1 -> IF code = Undefined THEN Throw(L, "TypeError")
                   ELSE Run([L EXCEPT
                        !.hasClientHooks = Some({"useState", "useEffect", "useCallback", "useContext", "useRef", "useReducer"}),
                        !.hasEventHandlers = Some({"onClick", "onChange", "onSubmit", "onMouseEnter"}),
                        !.hasBrowserAPIs = Some({"window.", "document.", "localStorage", "sessionStorage"})])
      [] pc = 2 -> Run(IF L.hasClientHooks \/ L.hasEventHandlers \/ L.hasBrowserAPIs
            THEN [L EXCEPT !.recommendedType = <<"client">>,
                           !.reasoning =
                                (IF L.hasClientHooks THEN << <<"Uses React hooks (state/effect)">> >> ELSE <<>>)
                                \o (IF L.hasEventHandlers THEN << <<"Uses event handlers (interactions)">> >> ELSE <<>>)
                                \o (IF L.hasBrowserAPIs THEN << <<"Uses Browser APIs">> >> ELSE <<>>)]
            ELSE [L EXCEPT !.reasoning =
                    << <<"No interactive logic or state detected; safe for Server Component">> >>])
      [] pc = 3 -> Run([L EXCEPT !.hasUseClient =
            StartsWith(Trim(code), "'use client'") \/ StartsWith(Trim(code), "\"use client\"")])
      [] pc = 4 -> Run(IF L.recommendedType = <<"server">> /\ L.hasUseClient
            THEN [L EXCEPT !.issues = Append(@,
                    <<"Component is marked 'use client' but appears to be static. Consider removing directive for better performance.">>)]
            ELSE IF L.recommendedType = <<"client">> /\ ~L.hasUseClient
            THEN [L EXCEPT !.issues = Append(@,
                    <<"Component uses interactive features but is missing 'use client' directive.">>)]
            ELSE L)
      [] OTHER -> Ret(L, [success |-> TRUE,
            data |-> << <<"fileName", a.fileName>>, <<"recommendedType", L.recommendedType>>,
                        <<"reasoning", L.reasoning>>, <<"issues", L.issues>> >>,
            metadata |-> [optimizationLevel |-> <<"high">>]])

(***************************************************************************)
(* frontend/logic/infinite_scroll                                          *)
(***************************************************************************)
InfiniteScrollSchema(a) ==
    /\ \A i \in DOMAIN a.queryKey : a.queryKey[i] # Undefined
    /\ a.fetcherPath # Undefined
InfiniteScrollInputs ==
    [hookName : {<<"useInfiniteData">>}, queryKey : {<<>>, << <<"users">>, <<"list">> >>},
     fetcherPath : {<<"@/lib/fetcher">>, <<"./fetcher">>, Undefined}, pageParamName : {<<"page">>}]

infinite_scroll_handler(pc, a, L, t) ==
    LET Quoted(k) == <<"\"">> \o k \o <<"\"">>
    IN
    CASE pc = 0 -> Run([code |-> <<>>])
      [] pc = 1 -> Run([L EXCEPT !.code =
            <<"import { useInfiniteQuery } from \"@tanstack/react-query\";\nimport { useEffect, useRef, useCallback } from \"react\";\n">>
            \o <<"import { fetchData } from \"">> \o Interp(a.fetcherPath) \o <<"\";">>
            \o <<"\n\nexport function ">> \o a.hookName \o <<"(options = {}) {\n  useInfiniteQuery({\n    queryKey: [">>
            \o Join(Map(a.queryKey, Quoted), <<", ">>)
            \o <<"],\n    queryFn: ({ pageParam = 1 }) => fetchData({ ">> \o a.pageParamName
            \o <<": pageParam }),\n  });\n}\n\n// Usage example component\nexport function InfiniteList() {\n  const { data } = ">>
            \o a.hookName \o <<"();\n}">>])
      [] OTHER -> Ret(L, [success |-> TRUE, data |-> L.code,
            metadata |-> [hookName |-> a.hookName, queryKey |-> a.queryKey]])

(***************************************************************************)
(* frontend/logic/analyze_hook_logic                                       *)
(***************************************************************************)
\* null
Null == <<"<null>">>

\* /export\s+(?:const|function)\s+(use[A-Z][a-zA-Z0-9]*)/ on one lexeme: the capture
HookNameIn(tok) ==
    CASE tok = "export function useUsers(" -> <<"useUsers">>
      [] tok = "export const useCart =" -> <<"useCart">>
      [] OTHER -> Null
\* code.match(re): the capture of the first lexeme that matches, or null
HookNameMatch(code) ==
    IF \E i \in DOMAIN code : HookNameIn(code[i]) # Null
    THEN HookNameIn(code[CHOOSE i \in DOMAIN code :
            HookNameIn(code[i]) # Null /\ \A j \in 1 .. i - 1 : HookNameIn(code[j]) = Null])
    ELSE Null

\* /\b(useEffect|useCallback|useMemo)\s*\(\s*\(\s*\)\s*=>\s*\{[^}]*\}\s*\)/ on one lexeme
IsEffectWithoutDeps(tok) ==
    tok \in {"useEffect(() => {})", "useCallback(() => {})", "useMemo(() => { })"}
\* A /g regular expression is an object with a lastIndex (here: a lexeme index).
NewRegex == [lastIndex |-> 0]
\* re.test(code) of a /g expression: the search starts at lastIndex; a match moves
\* lastIndex past it, a miss resets lastIndex to 0
RegexTest(re, code) ==
    LET hits == {i \in DOMAIN code : i > re.lastIndex /\ IsEffectWithoutDeps(code[i])}
    IN  IF hits = {} THEN [found |-> FALSE, re |-> [lastIndex |-> 0]]
        ELSE [found |-> TRUE, re |-> [lastIndex |-> CHOOSE i \in hits : \A j \in hits : i <= j]]

\* code.split('\n').length
LineCount(code) == 1 + Cardinality({i \in DOMAIN code : code[i] = "\n"})

analyzeHookLogicSchema(a) == a.code # Undefined /\ a.fileName # Undefined
analyzeHookLogicInputs ==
    [code : {<<"export function useUsers(", "\n", "useEffect(() => {}, [])", "\n", "return data;">>,
             <<"export function useUsers(", "\n", "useEffect(() => {})", "\n", "return data;">>,
             <<"export const useCart =", "items.filter(", "items.map(", "return data;">>,
             <<"export const useCart =", "items.filter(", "items.map(", "useMemo", "return data;">>,
             <<"useCallback(() => {})", "\n", "useEffect(() => {})">>,
             <<"const x = 1;">>, <<>>, Undefined},
     fileName : {<<"useUsers.ts">>, <<"hooks.ts">>}, strict : {TRUE}]

analyze_hook_logic_handler(pc, a, L, t) ==
    LET code == a.code
    IN
    CASE pc = 0 -> Run([issues |-> <<>>, suggestions |-> <<>>, hookNameMatch |-> Null,
                        hookName |-> Null, regexEffects |-> NewRegex, found |-> FALSE])
      [] pc = 1 -> IF code = Undefined THEN Throw(L, "TypeError")
                   ELSE Run([L EXCEPT !.hookNameMatch = HookNameMatch(code),
                                      !.hookName = HookNameMatch(code)])
      [] pc = 2 -> Run(IF ~Contains(a.fileName, "use") /\ L.hookName = Null
            THEN [L EXCEPT !.issues = Append(@,
                    <<"Could not detect a valid hook definition starting with \"use\" exported from this file.">>)]
            ELSE L)
      [] pc = 3 -> Run([L EXCEPT !.found = RegexTest(L.regexEffects, code).found,
                                 !.regexEffects = RegexTest(L.regexEffects, code).re])
      [] pc = 4 -> Run(IF L.found
            THEN [L EXCEPT !.issues = Append(@,
                    <<"Found useEffect/useCallback/useMemo without a dependency array. This can cause infinite loops or stale closures.">>)]
            ELSE L)
      [] pc = 5 -> Run(IF Contains(code, ".filter(") /\ Contains(code, ".map(") /\ ~Contains(code, "useMemo")
            THEN [L EXCEPT !.suggestions = Append(@,
                    <<"Chained array operations (.filter.map) found. Consider wrapping heavy computations in useMemo().">>)]
            ELSE L)
      [] pc = 6 -> Run(IF ~Contains(code, "return")
            THEN [L EXCEPT !.issues = Append(@,
                    <<"Hook does not seem to return any value or controls. Ensure it returns the necessary state or handlers.">>)]
            ELSE L)
      [] OTHER -> Ret(L, [success |-> Len(L.issues) = 0,
            data |-> << <<"hookName", L.hookName>>, <<"validConvention", L.hookName # Null>>,
                        <<"issues", L.issues>>, <<"suggestions", L.suggestions>> >>,
            metadata |-> [analyzedLines |-> LineCount(code)]])

(***************************************************************************)
(* frontend/logic/data_fetching                                            *)
(***************************************************************************)
DataFetchingSchema(a) ==
    /\ \A i \in DOMAIN a.queryKey : a.queryKey[i] # Undefined
    /\ a.fetcherFunction # Undefined
    /\ a.type \in {<<"query">>, <<"mutation">>}
DataFetchingInputs ==
    [queryKey : {<<>>, << <<"users">>, <<"list">> >>},
     fetcherFunction : {<<"fetchUsers">>, Undefined},
     type : {<<"query">>, <<"mutation">>, <<"subscription">>, Undefined}]

data_fetching_handler(pc, a, L, t) ==
    LET Quoted(k) == <<"'">> \o k \o <<"'">>
        keys == Join(Map(a.queryKey, Quoted), <<", ">>)
    IN
    CASE pc = 0 -> Run([pascalFetcher |-> <<>>, hookCode |-> <<>>])
      [] pc = 1 -> IF a.fetcherFunction = Undefined THEN Throw(L, "TypeError")
                   ELSE Run([L EXCEPT !.pascalFetcher = capitalize(a.fetcherFunction)])
      [] pc = 2 -> Run([L EXCEPT !.hookCode =
            IF a.type = <<"query">>
            THEN <<"\n", "import { useQuery } from '@tanstack/react-query';\nimport { ">>
                 \o a.fetcherFunction \o <<" } from '@/services/api';\n\nexport const use">>
                 \o L.pascalFetcher \o <<" = () => {\n  return useQuery({\n    queryKey: [">> \o keys
                 \o <<"],\n    queryFn: ">> \o a.fetcherFunction
                 \o <<",\n    staleTime: 5 * 60 * 1000, // 5 minutes\n  });\n};\n">>
            ELSE <<"\n", "import { useMutation, useQueryClient } from '@tanstack/react-query';\nimport { ">>
                 \o a.fetcherFunction \o <<" } from '@/services/api';\n\nexport const use">>
                 \o L.pascalFetcher \o <<"Mutation = () => {\n  return useMutation({\n    mutationFn: ">>
                 \o a.fetcherFunction \o <<",\n    onSuccess: () => { queryClient.invalidateQueries({ queryKey: [">>
                 \o keys \o <<"] }); },\n  });\n};\n">>])
      [] OTHER -> Ret(L, [success |-> TRUE, data |-> L.hookCode,
            metadata |-> [cacheStrategy |-> IF a.type = <<"query">> THEN <<"stale-while-revalidate">>
                                            ELSE <<"optimistic-ui-ready">>,
                          dependencies |-> <<"@tanstack/react-query">>]])

(***************************************************************************)
(* frontend/logic/form_factory                                             *)
(***************************************************************************)
FormFactorySchema(a) ==
    /\ \A i \in DOMAIN a.fields :
            /\ a.fields[i].name # Undefined /\ a.fields[i].label # Undefined
            /\ a.fields[i].type \in {<<"text">>, <<"number">>, <<"email">>, <<"select">>}
    /\ a.submitEndpoint # Undefined
FormFactoryInputs ==
    LET F(n, ty, l) == [name |-> n, type |-> ty, label |-> l]
    IN  [fields : {<<>>, <<F(<<"email">>, <<"email">>, <<"Email">>)>>,
                   <<F(<<"name">>, <<"text">>, <<"Full Name">>), F(<<"age">>, <<"number">>, <<"Age">>)>>,
                   <<F(<<"role">>, <<"select">>, <<"Role">>)>>,
                   <<F(<<"when">>, <<"date">>, <<"When">>)>>},
         submitEndpoint : {<<"/api/users">>, Undefined}]

\* the callback of the first fields.map
form_zodSchemaField(field) ==
    IF field.type = <<"email">>
    THEN <<"  ">> \o field.name \o <<": z.string().email({ message: \"Invalid email address\" }),">>
    ELSE IF field.type = <<"number">>
    THEN <<"  ">> \o field.name \o <<": z.coerce.number().min(0, { message: \"">> \o field.label
         \o <<" must be positive\" }),">>
    ELSE <<"  ">> \o field.name \o <<": z.string().min(2, { message: \"">> \o field.label
         \o <<" must be at least 2 characters\" }),">>

\* the callback of the second fields.map
form_fieldJsx(field) ==
    <<"\n        <FormField\n          name=\"">> \o field.name \o <<"\"\n              <FormLabel>">>
    \o field.label \o <<"</FormLabel>\n              <FormControl>\n                ">>
    \o (IF field.type = <<"select">>
        THEN <<"<Select onValueChange={field.onChange} defaultValue={field.value}><SelectValue placeholder=\"Select ">>
             \o field.label \o <<"\" /></Select>">>
        ELSE <<"<Input type=\"">> \o field.type \o <<"\" placeholder=\"">> \o field.label
             \o <<"\" {...field} />">>)
    \o <<"\n              </FormControl>\n        />">>

form_factory_handler(pc, a, L, t) ==
    LET DefaultValue(f) == f.name \o <<": \"\"">>
    IN
    CASE pc = 0 -> Run([zodSchemaFields |-> <<>>, formSchemaCode |-> <<>>,
                        formFieldsJsx |-> <<>>, fullComponent |-> <<>>])
      [] pc = 1 -> Run([L EXCEPT !.zodSchemaFields = Join(Map(a.fields, form_zodSchemaField), <<"\n">>)])
      [] pc = 2 -> Run([L EXCEPT !.formSchemaCode =
            <<"const formSchema = z.object({\n">> \o L.zodSchemaFields \o <<"\n});">>])
      [] pc = 3 -> Run([L EXCEPT !.formFieldsJsx = Join(Map(a.fields, form_fieldJsx), <<"\n">>)])
      [] pc = 4 -> Run([L EXCEPT !.fullComponent =
            <<"\n", "import { zodResolver } from \"@hookform/resolvers/zod\"\nimport { Input } from \"@/components/ui/input\"\n\n">>
            \o L.formSchemaCode
            \o <<"\n\nexport function GeneratedForm() {\n    defaultValues: {\n      ">>
            \o Join(Map(a.fields, DefaultValue), <<",\n      ">>)
            \o <<"\n    },\n  function onSubmit(values) {\n    console.log(\"Submitting to ">>
            \o Interp(a.submitEndpoint) \o <<"\", values)\n  }\n        ">> \o L.formFieldsJsx
            \o <<"\n        <Button type=\"submit\">Submit</Button>\n}\n">>])
      [] OTHER -> Ret(L, [success |-> TRUE, data |-> L.fullComponent,
            metadata |-> [generatedFields |-> Len(a.fields), validation |-> <<"zod">>]])

(***************************************************************************)
(* frontend/routing/routing_master                                         *)
(***************************************************************************)
RoutingMasterSchema(a) == a.routePath # Undefined /\ a.isDynamic \in BOOL /\ a.hasLayout \in BOOL
RoutingMasterInputs ==
    [routePath : {<<"/", "dashboard", "/", "settings">>, <<"(", "auth", ")", "/", "login">>,
                  <<"[", "id", "]">>, <<"/">>, <<>>, Undefined},
     isDynamic : BOOL, hasLayout : BOOL]

\* the inner function getComponentName; a path is its segments and its / [ ] ( ) lexemes
getComponentName(path) ==
    LET cleanPath == Trim([i \in DOMAIN path |->
                            IF path[i] \in {"/", "[", "]", "(", ")"} THEN " " ELSE path[i]])
        lastPart == IF cleanPath = <<>> THEN "Home" ELSE cleanPath[Len(cleanPath)]
    IN  <<CapTok(lastPart)>>

routing_master_handler(pc, a, L, t) ==
    CASE pc = 0 -> Run([componentName |-> <<>>, pageContent |-> <<>>, layoutContent |-> <<>>,
                        loadingContent |-> <<>>, errorContent |-> <<>>, files |-> <<>>])
      [] pc = 1 -> IF a.routePath = Undefined THEN Throw(L, "TypeError")
                   ELSE Run([L EXCEPT !.componentName = getComponentName(a.routePath)])
      [] pc = 2 -> Run([L EXCEPT !.pageContent =
            <<"export default function ">> \o L.componentName \o <<"Page({ params }) {\n      <h1>">>
            \o L.componentName \o <<"</h1>\n      <p>Welcome to the ">> \o a.routePath \o <<" page.</p>\n}">>])
      [] pc = 3 -> Run([L EXCEPT !.layoutContent =
            <<"export default function ">> \o L.componentName
            \o <<"Layout({ children }) {\n  return (<section className=\"dashboard-section\">{children}</section>);\n}">>])
      [] pc = 4 -> Run([L EXCEPT !.loadingContent =
            <<"export default function Loading() {\n  return (<div className=\"animate-spin\"></div>);\n}">>])
      [] pc = 5 -> Run([L EXCEPT !.errorContent =
            <<"'use client';\n\nimport { useEffect } from 'react';\n\nexport default function Error({ error, reset }) {}">>])
      [] pc = 6 -> Run([L EXCEPT !.files =
            << <<(<<"page.tsx">>), L.pageContent>>, <<(<<"loading.tsx">>), L.loadingContent>>,
               <<(<<"error.tsx">>), L.errorContent>> >>])
      [] pc = 7 -> Run(IF a.hasLayout
            THEN [L EXCEPT !.files = Put(@, <<"layout.tsx">>, L.layoutContent)]
            ELSE L)
      [] OTHER -> Ret(L, [success |-> TRUE, data |-> L.files,
            metadata |-> [routeStructure |-> a.routePath, filesGenerated |-> Keys(L.files)]])

(***************************************************************************)
(* frontend/routing/search_params_manager                                  *)
(***************************************************************************)
\* paramsToUpdate: z.record(z.string(), z.string()).optional(), as its entries
SearchParamsManagerSchema(a) ==
    /\ a.behavior \in {<<"push">>, <<"replace">>}
    /\ \A i \in DOMAIN a.paramsToUpdate : a.paramsToUpdate[i][2] # Undefined
SearchParamsManagerInputs ==
    [paramsToUpdate : {<<>>, << <<(<<"sort">>), <<"asc">> >> >>, << <<(<<"sort">>), Undefined>> >>},
     behavior : {<<"push">>, <<"replace">>, <<"reload">>}]

search_params_manager_handler(pc, a, L, t) ==
    CASE pc = 0 -> Run([hookCode |-> <<>>])
      [] pc = 1 -> Run([L EXCEPT !.hookCode =
            <<"import { useSearchParams, usePathname, useRouter } from 'next/navigation';\nimport { useCallback } from 'react';\n\nexport function useUpdateSearchParams() {\n  setQuery: router.">>
            \o a.behavior \o <<"(newUrl, { scroll: false });\n  setQueries: router.">>
            \o a.behavior \o <<"(newUrl, { scroll: false });\n  return { getQuery, setQuery, setQueries, searchParams };\n}\n">>])
      [] OTHER -> Ret(L, [success |-> TRUE, data |-> L.hookCode,
            metadata |-> [behavior |-> a.behavior, hookName |-> <<"useUpdateSearchParams">>]])

(***************************************************************************)
(* frontend/routing/sitemap_generator                                      *)
(***************************************************************************)
\* s.replace(/\/$/, '')
StripTrailingSlash(s) == IF s # <<>> /\ s[Len(s)] = "/" THEN SubSeq(s, 1, Len(s) - 1) ELSE s

SitemapGeneratorSchema(a) ==
    IsUrl(a.baseUrl) /\ \A i \in DOMAIN a.dynamicRoutes : a.dynamicRoutes[i] # Undefined
SitemapGeneratorInputs ==
    [baseUrl : {<<"https://", "mysite.com">>, <<"https://", "mysite.com", "/">>, <<"mysite.com">>},
     dynamicRoutes : {<<>>, << <<"/blog">>, <<"/products">> >>}]

sitemap_generator_handler(pc, a, L, t) ==
    CASE pc = 0 -> Run([sitemapCode |-> <<>>, robotsCode |-> <<>>])
      [] pc = 1 -> Run([L EXCEPT !.sitemapCode =
            <<"import { MetadataRoute } from 'next';\n\nexport default function sitemap() {\n  const baseUrl = '">>
            \o StripTrailingSlash(a.baseUrl)
            \o <<"';\n  const routes = ['', '/about', '/contact'];\n  const dynamicEntries = ">>
            \o JsonStrings(a.dynamicRoutes)
            \o <<".flatMap(prefix => []);\n  return [...routes, ...dynamicEntries];\n}\n">>])
      [] pc = 2 -> Run([L EXCEPT !.robotsCode =
            <<"import { MetadataRoute } from 'next';\n\nexport default function robots() {\n  const baseUrl = '">>
            \o StripTrailingSlash(a.baseUrl)
            \o <<"';\n  return { rules, sitemap: ${baseUrl}/sitemap.xml };\n}\n">>])
      [] OTHER -> Ret(L, [success |-> TRUE,
            data |-> << <<(<<"app/sitemap.ts">>), L.sitemapCode>>,
                        <<(<<"app/robots.ts">>), L.robotsCode>> >>,
            metadata |-> [baseUrl |-> a.baseUrl, sitemapType |-> <<"dynamic">>]])

(***************************************************************************)
(* frontend/testing/component_test_builder                                 *)
(***************************************************************************)
TestScenarios == {<<"render">>, <<"click">>, <<"disabled">>, <<"accessibility">>}
\* props: z.record(z.string(), z.any()), as its entries; a value is tagged by its
\* typeof and carries its JSON text
ComponentTestBuilderSchema(a) ==
    /\ a.componentName # Undefined
    /\ \A i \in DOMAIN a.testScenarios : a.testScenarios[i] \in TestScenarios
ComponentTestBuilderInputs ==
    LET P(k, ty, v) == [key |-> k, typeof |-> ty, text |-> v]
    IN  [componentName : {<<"Button">>, Undefined},
         props : {<<>>, <<P(<<"label">>, "string", <<"Save">>), P(<<"primary">>, "boolean", <<"true">>)>>,
                  <<P(<<"size">>, "number", <<"2">>), P(<<"ghost">>, "boolean", <<"false">>)>>},
         testScenarios : {<<>>, << <<"render">>, <<"accessibility">> >>,
                          << <<"click">>, <<"disabled">> >>, << <<"hover">> >>}]

\* function formatProps
formatProps(props) ==
    LET One(p) == IF p.typeof = "string" THEN p.key \o <<"=\"">> \o p.text \o <<"\"">>
                  ELSE IF p.typeof = "boolean" /\ p.text = <<"true">> THEN p.key
                  ELSE p.key \o <<"={">> \o p.text \o <<"}">>
    IN  Join(Map(props, One), <<" ">>)

component_test_builder_handler(pc, a, L, t) ==
    LET componentName == Interp(a.componentName)
        props == a.props
        \* props.label || componentName
        label == IF \E i \in DOMAIN props : props[i].key = <<"label">> /\ props[i].typeof = "string"
                                            /\ props[i].text # <<>>
                 THEN props[CHOOSE i \in DOMAIN props : props[i].key = <<"label">>].text
                 ELSE componentName
        Test(scenario) ==
            IF scenario = <<"render">>
            THEN <<"\n  it('renders correctly', () => {\n    render(<">> \o componentName \o <<" ">>
                 \o formatProps(props) \o <<" />);\n  });">>
            ELSE IF scenario = <<"click">>
            THEN <<"\n  it('handles click events', () => {\n    render(<">> \o componentName \o <<" ">>
                 \o formatProps(props) \o <<" onClick={handleClick} />);\n  });">>
            ELSE IF scenario = <<"disabled">>
            THEN <<"\n  it('is disabled when prop is passed', () => {\n    render(<">> \o componentName
                 \o <<" ">> \o formatProps(props) \o <<" disabled />);\n  });">>
            ELSE IF scenario = <<"accessibility">>
            THEN <<"\n  it('has accessible name', () => {\n    render(<">> \o componentName \o <<" ">>
                 \o formatProps(props) \o <<" />);\n    getByRole('button', { name: /">> \o label
                 \o <<"/i });\n  });">>
            ELSE <<>>
    IN
    CASE pc = 0 -> Run([imports |-> <<>>, tests |-> <<>>, code |-> <<>>])
      [] pc = 1 -> Run([L EXCEPT !.imports =
            <<"import { render, screen, fireEvent } from '@testing-library/react';\n">>
            \o <<"import { ">> \o componentName \o <<" } from './">> \o componentName \o <<"';">>
            \o <<"\nimport '@testing-library/jest-dom';">>])
      [] pc = 2 -> Run([L EXCEPT !.tests = Join(Map(a.testScenarios, Test), <<"\n">>)])
      [] pc = 3 -> Run([L EXCEPT !.code =
            L.imports \o <<"\n\ndescribe('">> \o componentName \o <<"', () => {\n">> \o L.tests
            \o <<"\n});\n">>])
      [] OTHER -> Ret(L, [success |-> TRUE, data |-> L.code,
            metadata |-> [library |-> <<"react-testing-library">>, testEnvironment |-> <<"jsdom">>]])

(***************************************************************************)
(* frontend/testing/e2e_frontend_builder                                   *)
(***************************************************************************)
E2EActions == {<<"click">>, <<"fill">>, <<"check">>, <<"assert_url">>, <<"assert_text">>}
E2EFrontendBuilderSchema(a) ==
    /\ a.testName # Undefined /\ a.startUrl # Undefined
    /\ \A i \in DOMAIN a.steps : a.steps[i].action \in E2EActions
E2EFrontendBuilderInputs ==
    LET S(act, sel, v) == [action |-> act, selector |-> sel, value |-> v]
    IN  [testName : {<<"login flow">>}, startUrl : {<<"/login">>, Undefined},
         steps : {<<>>,
                  <<S(<<"fill">>, <<"#email">>, <<"a@b.c">>), S(<<"click">>, <<"#submit">>, Undefined),
                    S(<<"assert_url">>, Undefined, <<"dashboard">>)>>,
                  <<S(<<"check">>, <<"#terms">>, Undefined), S(<<"assert_text">>, <<"h1">>, <<"Welcome">>)>>,
                  <<S(<<"click">>, Undefined, Undefined)>>,
                  <<S(<<"hover">>, <<"#menu">>, Undefined)>>}]

\* the callback of steps.map
e2e_stepCode(step) ==
    IF step.action = <<"click">>
    THEN <<"    await page.click('">> \o Interp(step.selector) \o <<"');">>
    ELSE IF step.action = <<"fill">>
    THEN <<"    await page.fill('">> \o Interp(step.selector) \o <<"', '">> \o Interp(step.value) \o <<"');">>
    ELSE IF step.action = <<"check">>
    THEN <<"    await page.check('">> \o Interp(step.selector) \o <<"');">>
    ELSE IF step.action = <<"assert_url">>
    THEN <<"    await expect(page).toHaveURL(/">> \o Interp(step.value) \o <<"/);">>
    ELSE IF step.action = <<"assert_text">>
    THEN <<"    await expect(page.locator('">> \o Interp(step.selector) \o <<"')).toContainText('">>
         \o Interp(step.value) \o <<"');">>
    ELSE <<>>

e2e_frontend_builder_handler(pc, a, L, t) ==
    CASE pc = 0 -> Run([stepsCode |-> <<>>, code |-> <<>>])
      [] pc = 1 -> Run([L EXCEPT !.stepsCode = Join(Map(a.steps, e2e_stepCode), <<"\n">>)])
      [] pc = 2 -> Run([L EXCEPT !.code =
            <<"import { test, expect } from '@playwright/test';\n\ntest('">> \o Interp(a.testName)
            \o <<"', async ({ page }) => {\n  await page.goto('">> \o Interp(a.startUrl) \o <<"');\n\n">>
            \o L.stepsCode \o <<"\n});\n">>])
      [] OTHER -> Ret(L, [success |-> TRUE, data |-> L.code,
            metadata |-> [framework |-> <<"playwright">>,
                          browsers |-> <<"chromium", "firefox", "webkit">>]])

(***************************************************************************)
(* frontend/testing/hook_test_generator                                    *)
(***************************************************************************)
\* initialProps: z.any().optional(), as whether it is truthy and its JSON text
HookTestGeneratorSchema(a) ==
    a.hookName # Undefined /\ \A i \in DOMAIN a.actions : a.actions[i] # Undefined
HookTestGeneratorInputs ==
    [hookName : {<<"useCounter">>, Undefined},
     initialProps : {[truthy |-> FALSE, json |-> <<>>], [truthy |-> FALSE, json |-> <<"0">>],
                     [truthy |-> TRUE, json |-> <<"{\"initial\":5}">>]},
     actions : {<<>>, << <<"increment">>, <<"reset">> >>}]

hook_test_generator_handler(pc, a, L, t) ==
    LET hookName == Interp(a.hookName)
        initial == IF a.initialProps.truthy THEN a.initialProps.json ELSE <<>>
        ActionTest(action) ==
            <<"\n  it('should handle ">> \o action \o <<" correctly', () => {\n    renderHook(() => ">>
            \o hookName \o <<"(">> \o initial \o <<"));\n    act(() => {\n      result.current.">>
            \o action \o <<"();\n    });\n  });">>
    IN
    CASE pc = 0 -> Run([code |-> <<>>])
      [] pc = 1 -> Run([L EXCEPT !.code =
            <<"import { renderHook, act } from '@testing-library/react-hooks';\n">>
            \o <<"import { ">> \o hookName \o <<" } from './">> \o hookName \o <<"';">>
            \o <<"\n\ndescribe('">> \o hookName
            \o <<"', () => {\n  it('should initialize correctly', () => {\n    renderHook(() => ">>
            \o hookName \o <<"(">> \o initial \o <<"));\n  });\n\n  ">>
            \o Join(Map(a.actions, ActionTest), <<"\n">>) \o <<"\n});\n">>])
      [] OTHER -> Ret(L, [success |-> TRUE, data |-> L.code,
            metadata |-> [library |-> <<"react-testing-library-hooks (or v18 renderHook)">>,
                          note |-> <<"If using React 18+, import renderHook from @testing-library/react">>]])

(***************************************************************************)
(* frontend/ui/ai_copywriter                                               *)
(***************************************************************************)
AiCopywriterSchema(a) == a.componentContext # Undefined
AiCopywriterInputs ==
    [componentContext : {<<"Empty State for Orders">>, <<"Hero Section for SaaS">>, <<"Sidebar">>,
                         Undefined},
     targetAudience : {<<"General">>, <<"Gen Z">>, <<"Medical">>}]

ai_copywriter_handler(pc, a, L, t) ==
    LET context == toLowerCase(a.componentContext)
    IN
    CASE pc = 0 -> Run([title |-> <<"Welcome">>,
                        description |-> <<"Please interact with the application.">>,
                        cta |-> <<"Click here">>])
      [] pc = 1 -> IF a.componentContext = Undefined THEN Throw(L, "TypeError")
            ELSE Run(
                IF Contains(context, "empty")
                THEN IF Contains(a.targetAudience, "Gen Z")
                     THEN [title |-> <<"Nothing to see here... yet!">>,
                           description |-> <<"Start your journey by adding your first item. It's gonna be epic.">>,
                           cta |-> <<"Let's Go">>]
                     ELSE [title |-> <<"No Data Available">>,
                           description |-> <<"It looks like you haven't created any records yet. Get started by clicking the button below.">>,
                           cta |-> <<"Create New">>]
                ELSE IF Contains(context, "hero")
                THEN IF Contains(a.targetAudience, "Medical")
                     THEN [title |-> <<"Advanced Care for Modern Practice">>,
                           description |-> <<"Streamline your veterinary operations with our state-of-the-art management suite.">>,
                           cta |-> <<"Book Demo">>]
                     ELSE [title |-> <<"Supercharge Your Workflow">>,
                           description |-> <<"The all-in-one platform to manage your business efficiently and effectively.">>,
                           cta |-> <<"Start Free Trial">>]
                ELSE L)
      [] OTHER -> Ret(L, [success |-> TRUE,
            data |-> << <<(<<"title">>), L.title>>, <<(<<"description">>), L.description>>,
                        <<(<<"cta">>), L.cta>> >>,
            metadata |-> [tone |-> a.targetAudience, context |-> a.componentContext]])

(***************************************************************************)
(* frontend/ui/feedback_system                                             *)
(***************************************************************************)
FeedbackSystemSchema(a) ==
    a.triggerAction # Undefined /\ a.successMessage # Undefined /\ a.errorMessage # Undefined
FeedbackSystemInputs ==
    [triggerAction : {<<"handle", "Save">>, <<"submit">>, Undefined},
     successMessage : {<<"Saved!">>}, errorMessage : {<<"Could not save">>, Undefined}]

feedback_system_handler(pc, a, L, t) ==
    CASE pc = 0 -> Run([wrappedHandlerCode |-> <<>>, skeletonLoader |-> <<>>])
      [] pc = 1 -> Run([L EXCEPT !.wrappedHandlerCode =
            <<"\n", "import { toast } from \"sonner\";\n\nconst ">> \o Interp(a.triggerAction)
            \o <<" = async () => {\n  try {\n    toast.success(\"">> \o a.successMessage
            \o <<"\");\n  } catch (error) {\n    toast.error(\"">> \o Interp(a.errorMessage)
            \o <<"\", { description: \"Please check your connection and try again.\" });\n  }\n};\n">>])
      [] pc = 2 -> IF a.triggerAction = Undefined THEN Throw(L, "TypeError")
            ELSE Run([L EXCEPT !.skeletonLoader =
                <<"\n", "import { Skeleton } from \"@/components/ui/skeleton\";\n\nexport function Loading">>
                \o RemoveFirst(a.triggerAction, "handle")
                \o <<"() {\n  return (<div><Skeleton /></div>)\n}\n">>])
      [] OTHER -> Ret(L, [success |-> TRUE,
            data |-> << <<(<<"handler">>), L.wrappedHandlerCode>>,
                        <<(<<"skeleton">>), L.skeletonLoader>> >>,
            metadata |-> [library |-> <<"sonner + shadcn/skeleton">>,
                          uxOptimizations |-> <<"error-handling", "loading-state">>]])

(***************************************************************************)
(* frontend/ui/responsive_ui                                               *)
(***************************************************************************)
\* constraints is optional: an omitted list is <<>>
ResponsiveSchema(a) ==
    /\ a.componentDescription # Undefined
    /\ \A i \in DOMAIN a.constraints : a.constraints[i] # Undefined
ResponsiveInputs ==
    [componentDescription : {<<"Dashboard de metricas">>, <<>>, Undefined},
     constraints : {<<>>, << <<"sin scroll horizontal">> >>}]

responsiveHandler(pc, a, L, t) ==
    CASE pc = 0 -> Run([result |-> <<>>])
      [] pc = 1 -> Run([L EXCEPT !.result =
            <<"Estructura generada con estrategia Mobile-First para: ">> \o Interp(a.componentDescription)
            \o <<".\nSe aplicaron breakpoints 'sm' y 'md' para asegurar los 60fps y legibilidad en pantallas chicas.\nClases sugeridas: 'grid grid-cols-1 md:grid-cols-12 gap-4 p-4'">>])
      [] OTHER -> Ret(L, [success |-> TRUE, data |-> L.result,
            metadata |-> [strategy |-> <<"mobile-first">>, breakpoints |-> <<"sm", "md">>]])

(***************************************************************************)
(* frontend/ui/skeleton_loader                                             *)
(***************************************************************************)
\* Array(n) accepts a whole number from 0 to 2^32 - 1 and throws a RangeError
\* otherwise; every number the model represents is below the upper limit
ValidArrayLength(n) == IsWhole(n) /\ n.twice >= 0
\* Array(n).fill(x)
Fill(n, x) == [i \in 1 .. (n.twice \div 2) |-> x]

SkeletonLayouts == {<<"card">>, <<"table">>, <<"list">>, <<"profile">>, <<"form">>}
\* z.number() accepts every finite number: negative and fractional ones too
SkeletonLoaderSchema(a) ==
    a.componentName # Undefined /\ a.layout \in SkeletonLayouts /\ a.animated \in BOOL
SkeletonLoaderInputs ==
    [componentName : {<<"UserSkeleton">>},
     layout : SkeletonLayouts \cup {<<"grid">>},
     itemCount : {Whole(2), Whole(0), Whole(-1), Num(3)},
     animated : BOOL]

skeleton_loader_handler(pc, a, L, t) ==
    LET cls == L.animationClass
        Rows(x) == Join(Fill(a.itemCount, x), <<"\n      ">>)
    IN
    CASE pc = 0 -> Run([animationClass |-> <<>>, layouts |-> <<>>, code |-> <<>>])
      [] pc = 1 -> Run([L EXCEPT !.animationClass = When(a.animated, <<"animate-pulse">>)])
      [] pc = 2 ->
            \* every property of the object literal is evaluated, whatever the layout
            IF ~ValidArrayLength(a.itemCount) THEN Throw(L, "RangeError")
            ELSE Run([L EXCEPT !.layouts =
                << <<(<<"card">>),
                     <<"<div className=\"rounded-lg border p-4 space-y-3\"><div className=\"h-4 w-3/4 bg-muted rounded ">>
                     \o cls \o <<"\" /></div>">> >>,
                   <<(<<"table">>),
                     <<"<div className=\"space-y-2\">\n      <div className=\"h-10 bg-muted rounded ">> \o cls
                     \o <<"\" />\n      ">>
                     \o Rows(<<"<div className=\"h-12 bg-muted/50 rounded ">> \o cls \o <<"\" />">>)
                     \o <<"\n    </div>">> >>,
                   <<(<<"list">>),
                     <<"<div className=\"space-y-3\">\n      ">>
                     \o Rows(<<"<div className=\"flex gap-3\"><div className=\"h-10 w-10 rounded-full bg-muted ">>
                             \o cls \o <<"\" /></div>">>)
                     \o <<"\n    </div>">> >>,
                   <<(<<"profile">>),
                     <<"<div className=\"flex flex-col items-center gap-4\"><div className=\"h-24 w-24 rounded-full bg-muted ">>
                     \o cls \o <<"\" /></div>">> >>,
                   <<(<<"form">>),
                     <<"<div className=\"space-y-4\">\n      ">>
                     \o Rows(<<"<div className=\"space-y-2\"><div className=\"h-4 w-20 bg-muted rounded ">>
                             \o cls \o <<"\" /></div>">>)
                     \o <<"\n      <div className=\"h-10 w-24 bg-muted rounded ">> \o cls
                     \o <<"\" />\n    </div>">> >> >>])
      [] pc = 3 -> Run([L EXCEPT !.code =
            <<"import { cn } from \"@/lib/utils\";\n\ninterface ">> \o a.componentName
            \o <<"Props {}\n\nexport function ">> \o a.componentName \o <<"({ className, count = ">>
            \o NumText(a.itemCount) \o <<" }: ">> \o a.componentName \o <<"Props) {\n      ">>
            \o (IF HasKey(L.layouts, a.layout) THEN Get(L.layouts, a.layout) ELSE <<"undefined">>)
            \o <<"\n}\n\nexport function SkeletonLine() { \"h-4 bg-muted rounded ">> \o cls
            \o <<"\" }\nexport function SkeletonCircle() { \"h-10 w-10 rounded-full bg-muted ">> \o cls
            \o <<"\" }\nexport function SkeletonBox() { \"h-20 bg-muted rounded ">> \o cls \o <<"\" }">>])
      [] OTHER -> Ret(L, [success |-> TRUE, data |-> L.code,
            metadata |-> [componentName |-> a.componentName, layout |-> a.layout,
                          animated |-> a.animated]])

(***************************************************************************)
(* frontend/ui/table_generator                                             *)
(***************************************************************************)
\* the schema with columns declared non-empty (z.array(...).min(1))
TableGeneratorSchemaNonEmpty(a) ==
    /\ a.tableName # Undefined
    /\ a.columns # <<>>
    /\ \A i \in DOMAIN a.columns : a.columns[i].key # Undefined /\ a.columns[i].label # Undefined

TableGeneratorSchema(a) ==
    /\ a.tableName # Undefined
    /\ \A i \in DOMAIN a.columns : a.columns[i].key # Undefined /\ a.columns[i].label # Undefined
TableGeneratorInputs ==
    [tableName : {<<"Users">>, Undefined},
     columns : {<<>>,
                <<[key |-> <<"email">>, label |-> <<"Email">>, sortable |-> TRUE]>>,
                <<[key |-> <<"email">>, label |-> <<"Email">>, sortable |-> TRUE],
                  [key |-> <<"id">>, label |-> <<"Id">>, sortable |-> FALSE]>>},
     withPagination : BOOL, withSearch : BOOL, withRowActions : BOOL]

table_columnDef(col) ==
    <<"\n  {\n    accessorKey: \"">> \o col.key \o <<"\",\n    header: ">>
    \o (IF col.sortable
        THEN <<"({ column }) => (\n      <Button variant=\"ghost\" onClick={() => column.toggleSorting(column.getIsSorted() === \"asc\")}>\n        ">>
             \o col.label \o <<"\n        <ArrowUpDown className=\"ml-2 h-4 w-4\" />\n      </Button>\n    )">>
        ELSE <<"\"">> \o col.label \o <<"\"">>)
    \o <<",\n  },">>

table_rowField(c) == c.key \o <<": string;">>

table_generator_handler(pc, a, L, t) ==
    LET n == Interp(a.tableName) IN
    CASE pc = 0 -> Run([columnDefs |-> <<>>, code |-> <<>>])
      [] pc = 1 -> Run([L EXCEPT !.columnDefs = Flatten(Map(a.columns, table_columnDef))])
      [] pc = 2 -> Run([L EXCEPT !.code =
            <<"\"use client\";\nimport { useState } from \"react\";\n">>
            \o <<"import {\n  ColumnDef,\n  flexRender,\n  getCoreRowModel,\n  getSortedRowModel,\n  getFilteredRowModel,\n  getPaginationRowModel,\n  useReactTable,\n  SortingState,\n} from \"@tanstack/react-table\";\n">>
            \o <<"import { Button } from \"@/components/ui/button\";\n">>
            \o <<"import { Input } from \"@/components/ui/input\";\n">>
            \o <<"import { DropdownMenu, DropdownMenuContent, DropdownMenuItem, DropdownMenuTrigger } from \"@/components/ui/dropdown-menu\";\n\n">>
            \o <<"export type ">> \o n \o <<"Row = {\n  id: string;\n  ">>
            \o Join(Map(a.columns, table_rowField), <<"\n  ">>)
            \o <<"\n};\n\nconst columns: ColumnDef<">> \o n \o <<"Row>[] = [\n  ">>
            \o L.columnDefs \o <<"\n  ">>
            \o When(a.withRowActions, <<"{\n    id: \"actions\",\n    cell: ({ row }) => (<DropdownMenu />),\n  },">>)
            \o <<"\n];\n\ninterface ">> \o n \o <<"Props {\n  data: ">> \o n
            \o <<"Row[];\n}\n\nexport function ">> \o n \o <<"({ data }: ">> \o n
            \o <<"Props) {\n  const table = useReactTable({\n    data,\n    columns,\n    ">>
            \o When(a.withPagination, <<"getPaginationRowModel: getPaginationRowModel(),">>)
            \o <<"\n  });\n\n  return (\n    <div className=\"space-y-4\">\n      ">>
            \o When(a.withSearch, <<"<Input\n        placeholder=\"Search...\"\n      />">>)
            \o <<"\n      <Table />\n      ">>
            \o When(a.withPagination,
                    <<"<div className=\"flex items-center justify-end gap-2\">\n        <Button onClick={() => table.previousPage()}>\n          Previous\n        </Button>\n        <Button onClick={() => table.nextPage()}>\n          Next\n        </Button>\n      </div>">>)
            \o <<"\n    </div>\n  );\n}">>])
      [] OTHER -> Ret(L, [success |-> TRUE, data |-> L.code,
            metadata |-> [tableName |-> a.tableName, columns |-> Whole(Len(a.columns)),
                          features |-> [withPagination |-> a.withPagination,
                                        withSearch |-> a.withSearch,
                                        withRowActions |-> a.withRowActions]]])

(***************************************************************************)
(* frontend/ui/toast_notification                                          *)
(***************************************************************************)
ToastProviders == {<<"sonner">>, <<"react-hot-toast">>}
ToastNotificationSchema(a) == a.provider \in ToastProviders
ToastNotificationInputs ==
    [provider : ToastProviders \cup {<<"notistack">>}, withCustomStyles : BOOL, generateHook : BOOL]

toast_notification_handler(pc, a, L, t) ==
    LET sonner == a.provider = <<"sonner">> IN
    CASE pc = 0 -> Run([files |-> <<>>])
      [] pc = 1 -> Run([L EXCEPT !.files = Put(@, <<"toast-provider.tsx">>,
            IF sonner
            THEN <<"\"use client\";\n", "import { Toaster } from \"sonner\";",
                   "\n\nexport function ToastProvider() {\n  return (\n    <Toaster\n      toastOptions={{\n        ">>
                 \o When(a.withCustomStyles,
                         <<"classNames: {\n          success: \"!bg-green-500/10 !border-green-500/20\",\n        },">>)
                 \o <<"\n      }}\n    />\n  );\n}">>
            ELSE <<"\"use client\";\n", "import { Toaster } from \"react-hot-toast\";",
                   "\n\nexport function ToastProvider() {\n  return (\n    <Toaster\n      toastOptions={{\n        ">>
                 \o When(a.withCustomStyles, <<"style: {\n          borderRadius: \"8px\",\n        },">>)
                 \o <<"\n        success: { iconTheme: { primary: \"#22c55e\", secondary: \"#fff\" } },\n      }}\n    />\n  );\n}">>)])
      [] pc = 2 -> Run(IF a.generateHook
            THEN [L EXCEPT !.files = Put(@, <<"use-toast.ts">>,
                    IF sonner
                    THEN <<"import { toast } from \"sonner\";",
                           "\n\nexport function useToast() {\n  return { success, error, warning, info, loading, dismiss, promise };\n}">>
                    ELSE <<"import toast from \"react-hot-toast\";",
                           "\n\nexport function useToast() {\n  return {\n    success: (message: string) => toast.success(message),\n  };\n}">>)]
            ELSE L)
      [] pc = 3 -> Run([L EXCEPT !.files = Put(@, <<"usage-example.tsx">>,
            <<"import { useToast } from \"./use-toast\";",
              "\n\nexport function ExampleComponent() {\n  return <button onClick={handleSave}>Save</button>;\n}">>)])
      [] OTHER -> Ret(L, [success |-> TRUE, data |-> L.files,
            metadata |-> [provider |-> a.provider, generatedFiles |-> Keys(L.files)]])

(***************************************************************************)
(* frontend/ui/ui_polish                                                   *)
(***************************************************************************)
UiPolishSchema(a) == a.componentCode # Undefined /\ a.context # Undefined
UiPolishInputs ==
    [componentCode : {<<"<div>Hola</div>">>,
                      <<"<div ", "className=\"", "p-4", "\"", ">Hola</div>">>,
                      <<"<a ", "className=\"", "p-4", "\"", "/><b ", "className=\"", "m-2 ", "flex", "\"", "/>">>,
                      <<"import { X } from 'lucide-react';", "<div ", "className=\"", "p-4 ",
                        "hover:bg-accent", "\"", " />">>,
                      <<"<div ", "className=\"", "\"", " />">>,
                      Undefined},
     context : {<<"dashboard">>}]

RECURSIVE ClassEnd(_, _)
\* the index of the quote that closes the attribute value starting at i, or 0:
\* [^"]+ needs at least one character before the closing quote
ClassEnd(s, i) ==
    IF i > Len(s) THEN 0
    ELSE IF s[i] = "\"" THEN i
    ELSE ClassEnd(s, i + 1)

RECURSIVE AddHover(_)
\* s.replace(/className="([^"]+)"/g, 'className="$1 hover:opacity-90 transition-opacity"')
AddHover(s) ==
    IF s = <<>> THEN <<>>
    ELSE LET e == IF Head(s) = "className=\"" THEN ClassEnd(s, 2) ELSE 0
         IN  IF e > 2
             THEN SubSeq(s, 1, e - 1) \o <<" hover:opacity-90 transition-opacity", "\"">>
                  \o AddHover(SubSeq(s, e + 1, Len(s)))
             ELSE <<Head(s)>> \o AddHover(Tail(s))

ui_polish_handler(pc, a, L, t) ==
    CASE pc = 0 -> Run([polishedCode |-> a.componentCode, improvements |-> <<>>])
      [] pc = 1 ->
            \* undefined.includes(...)
            IF L.polishedCode = Undefined THEN Throw(L, "TypeError")
            ELSE IF ~Contains(L.polishedCode, "lucide-react")
            THEN Run([L EXCEPT
                    !.polishedCode = <<"import { Sparkles, ArrowRight } from 'lucide-react';\n">> \o @,
                    !.improvements = Append(@, "Added Lucide React icons import")])
            ELSE Run(L)
      [] pc = 2 ->
            IF Contains(L.polishedCode, "className=\"") /\ ~Contains(L.polishedCode, "hover:")
            THEN Run([L EXCEPT
                    !.polishedCode = AddHover(@),
                    !.improvements = Append(@, "Added hover transition effects to elements")])
            ELSE Run(L)
      [] OTHER -> Ret(L, [success |-> TRUE, data |-> L.polishedCode,
            metadata |-> [context |-> a.context, improvements |-> L.improvements]])

(***************************************************************************)
(* frontend/ui/ui_polish: the ShadcnSchema, shadcnHandler and              *)
(* shadcnSkillDefinition this file exports as well                         *)
(***************************************************************************)
ShadcnComponentTypes == {<<"card">>, <<"form">>, <<"data-table">>, <<"modal">>}
ShadcnFields == {<<>>, << <<"Email">> >>, << <<"Full Name">>, <<"Email">> >>}

ui_polish_ShadcnSchema(a) ==
    /\ a.componentType \in ShadcnComponentTypes
    /\ \A i \in DOMAIN a.dataFields : a.dataFields[i] # Undefined
ui_polish_ShadcnInputs ==
    [componentType : ShadcnComponentTypes \cup {<<"carousel">>}, dataFields : ShadcnFields]

ui_polish_shadcnHandler(pc, a, L, t) ==
    CASE pc = 0 -> Run([codeSnippet |-> <<>>])
      [] pc = 1 -> Run([L EXCEPT !.codeSnippet =
            <<"// Shadcn ">> \o a.componentType \o <<" component\n// Fields: ">>
            \o Join(a.dataFields, <<", ">>)
            \o <<"\n// Implementation pending actual AST manipulation">>])
      [] OTHER -> Ret(L, [success |-> TRUE, data |-> L.codeSnippet,
            metadata |-> [style |-> <<"shadcn/ui">>, component |-> a.componentType]])

(***************************************************************************)
(* frontend/ui/shadcn_expert                                               *)
(***************************************************************************)
\* componentName is optional; includeActions and darkMode have defaults
ShadcnSchema(a) ==
    /\ a.componentType \in ShadcnComponentTypes
    /\ \A i \in DOMAIN a.dataFields : a.dataFields[i] # Undefined
ShadcnInputs ==
    [componentType : ShadcnComponentTypes \cup {<<"carousel">>},
     dataFields : ShadcnFields,
     componentName : {Undefined, <<"UserModal">>},
     includeActions : BOOL, darkMode : BOOL]

\* f.toLowerCase().replace(/\s/g, '') on one lexeme
FieldKeyTok(c) ==
    CASE c = "Full Name" -> "fullname" [] c = "Email" -> "email" [] OTHER -> c
shadcn_fieldKey(f) == [i \in DOMAIN f |-> FieldKeyTok(f[i])]

RECURSIVE StripModalDialog(_)
\* name.replace(/Modal|Dialog/g, '')
StripModalDialog(s) ==
    IF s = <<>> THEN <<>>
    ELSE (CASE Head(s) = "UserModal" -> <<"User">>
            [] Head(s) \in {"Modal", "Dialog"} -> <<>>
            [] OTHER -> <<Head(s)>>) \o StripModalDialog(Tail(s))

shadcn_typeField(f) == shadcn_fieldKey(f) \o <<": string;">>

generateCard(name, fields, includeActions, darkMode) ==
    LET fieldItem(f) ==
            <<"\n          <div className=\"flex justify-between\">\n            <span className=\"text-muted-foreground\">">>
            \o f \o <<"</span>\n            <span className=\"font-medium\">{data.">>
            \o shadcn_fieldKey(f) \o <<"}</span>\n          </div>">>
        fieldItems == Join(Map(fields, fieldItem), <<"\n">>)
        first == IF fields = <<>> THEN Undefined ELSE shadcn_fieldKey(fields[1])
    IN  <<"import { Card, CardContent, CardDescription, CardFooter, CardHeader, CardTitle } from \"@/components/ui/card\";\n">>
        \o When(includeActions, <<"import { Edit, Trash2 } from \"lucide-react\";">>)
        \o <<"\n\ninterface ">> \o name \o <<"Props {\n  data: {\n    ">>
        \o Join(Map(fields, shadcn_typeField), <<"\n    ">>)
        \o <<"\n  };\n  ">>
        \o When(includeActions, <<"onEdit?: () => void;\n  onDelete?: () => void;">>)
        \o <<"\n}\n\nexport function ">> \o name \o <<"({ data">>
        \o When(includeActions, <<", onEdit, onDelete">>)
        \o <<" }: ">> \o name \o <<"Props) {\n  return (\n    <Card className=\"">>
        \o When(darkMode, <<"bg-card hover:bg-accent/50 transition-colors">>)
        \o <<"\">\n          <span>{data.">> \o OrElse(first, <<"title">>)
        \o <<"}</span>\n        ">> \o fieldItems \o <<"\n      ">>
        \o When(includeActions, <<"<CardFooter className=\"flex justify-end gap-2\"></CardFooter>">>)
        \o <<"\n    </Card>\n  );\n}">>

generateDataTable(name, fields, includeActions) ==
    LET column(f) ==
            <<"\n  {\n    accessorKey: \"">> \o shadcn_fieldKey(f)
            \o <<"\",\n    header: ({ column }) => (\n        ">> \o f \o <<"\n    ),\n  },">>
        columns == Flatten(Map(fields, column))
    IN  <<"import { ColumnDef } from \"@tanstack/react-table\";\n\nexport type ">> \o name
        \o <<"Data = {\n  id: string;\n  ">>
        \o Join(Map(fields, shadcn_typeField), <<"\n  ">>)
        \o <<"\n};\n\nexport const ">> \o toLowerCase(name) \o <<"Columns: ColumnDef<">> \o name
        \o <<"Data>[] = [\n  ">> \o columns \o <<"\n  ">>
        \o When(includeActions, <<"{\n    id: \"actions\",\n    cell: ({ row }) => {\n      const item = row.original;\n    },\n  },">>)
        \o <<"\n];">>

generateModal(name, fields) ==
    LET formField(f) ==
            <<"\n        <div className=\"grid gap-2\">\n          <Label htmlFor=\"">> \o shadcn_fieldKey(f)
            \o <<"\">">> \o f \o <<"</Label>\n          <Input id=\"">> \o shadcn_fieldKey(f)
            \o <<"\" placeholder=\"Enter ">> \o toLowerCase(f) \o <<"\" />\n        </div>">>
        formFields == Flatten(Map(fields, formField))
    IN  <<"import { Dialog, DialogContent, DialogDescription, DialogFooter, DialogHeader, DialogTitle, DialogTrigger } from \"@/components/ui/dialog\";\n\ninterface ">>
        \o name \o <<"Props {\n  trigger: React.ReactNode;\n}\n\nexport function ">> \o name
        \o <<"({ trigger, onSubmit }: ">> \o name \o <<"Props) {\n            <DialogTitle>">>
        \o StripModalDialog(name) \o <<"</DialogTitle>\n            ">> \o formFields
        \o <<"\n}">>

generateForm(name, fields) ==
    LET formField(f) ==
            <<"\n        <FormField\n          name=\"">> \o shadcn_fieldKey(f)
            \o <<"\"\n              <FormLabel>">> \o f \o <<"</FormLabel>\n                <Input placeholder=\"">>
            \o f \o <<"\" {...field} />\n        />">>
        formFields == Flatten(Map(fields, formField))
        zodField(f) == <<"  ">> \o shadcn_fieldKey(f) \o <<": z.string().min(1, \"">> \o f \o <<" is required\"),">>
        zodFields == Join(Map(fields, zodField), <<"\n">>)
        defaultValue(f) == shadcn_fieldKey(f) \o <<": \"\"">>
    IN  <<"import { zodResolver } from \"@hookform/resolvers/zod\";\n\nconst formSchema = z.object({\n">>
        \o zodFields \o <<"\n});\n\ninterface ">> \o name \o <<"Props {\n  isLoading?: boolean;\n}\n\nexport function ">>
        \o name \o <<"({ onSubmit, defaultValues, isLoading }: ">> \o name
        \o <<"Props) {\n    defaultValues: defaultValues || {\n      ">>
        \o Join(Map(fields, defaultValue), <<",\n      ">>)
        \o <<"\n    },\n        ">> \o formFields \o <<"\n}">>

shadcnHandler(pc, a, L, t) ==
    CASE pc = 0 -> Run([name |-> <<>>, code |-> <<>>])
      [] pc = 1 -> Run([L EXCEPT !.name =
            OrElse(a.componentName, <<"Generated">> \o capitalize(a.componentType))])
      [] pc = 2 ->
            \* the switch has no default branch
            Run([L EXCEPT !.code =
                CASE a.componentType = <<"card">> ->
                        generateCard(L.name, a.dataFields, a.includeActions, a.darkMode)
                  [] a.componentType = <<"data-table">> ->
                        generateDataTable(L.name, a.dataFields, a.includeActions)
                  [] a.componentType = <<"modal">> -> generateModal(L.name, a.dataFields)
                  [] a.componentType = <<"form">> -> generateForm(L.name, a.dataFields)
                  [] OTHER -> L.code])
      [] OTHER -> Ret(L, [success |-> TRUE, data |-> L.code,
            metadata |-> [style |-> <<"shadcn/ui">>, component |-> a.componentType,
                          generatedName |-> L.name]])


(***************************************************************************)
(* The definition objects and the dispatch tables                          *)
(***************************************************************************)

\* handler: (args: z.infer<T>) => Promise<SkillResult>, by handler reference
Handler(h, pc, a, L, t) ==
    CASE h = "rate_limit_setup" -> rate_limit_setup_handler(pc, a, L, t)
      [] h = "swagger_doc_helper" -> swagger_doc_helper_handler(pc, a, L, t)
      [] h = "versioning_manager" -> versioning_manager_handler(pc, a, L, t)
      [] h = "generate_nest_resource" -> generate_nest_resource_handler(pc, a, L, t)
      [] h = "logger_provider" -> logger_provider_handler(pc, a, L, t)
      [] h = "health_check_builder" -> health_check_builder_handler(pc, a, L, t)
      [] h = "cache_manager" -> cache_manager_handler(pc, a, L, t)
      [] h = "email_service" -> email_service_handler(pc, a, L, t)
      [] h = "websocket_gateway" -> websocket_gateway_handler(pc, a, L, t)
      [] h = "s3_upload" -> s3_upload_handler(pc, a, L, t)
      [] h = "google_oauth" -> google_oauth_handler(pc, a, L, t)
      [] h = "file_upload_manager" -> file_upload_manager_handler(pc, a, L, t)
      [] h = "gemini_integration" -> gemini_integration_handler(pc, a, L, t)
      [] h = "mercado_pago_integration" -> mercado_pago_integration_handler(pc, a, L, t)
      [] h = "cron_job_scheduler" -> cron_job_scheduler_handler(pc, a, L, t)
      [] h = "access_list_manager" -> access_list_manager_handler(pc, a, L, t)
      [] h = "role_guard_generator" -> role_guard_generator_handler(pc, a, L, t)
      [] h = "token_blacklist" -> token_blacklist_handler(pc, a, L, t)
      [] h = "e2e_test_builder" -> e2e_test_builder_handler(pc, a, L, t)
      [] h = "load_test_config" -> load_test_config_handler(pc, a, L, t)
      [] h = "unit_test_generator" -> unit_test_generator_handler(pc, a, L, t)
      [] h = "migration_expert" -> migration_expert_handler(pc, a, L, t)
      [] h = "entity_creator" -> entity_creator_handler(pc, a, L, t)
      [] h = "auth_session_manager" -> auth_session_manager_handler(pc, a, L, t)
      [] h = "auth_guard" -> auth_guard_handler(pc, a, L, t)
      [] h = "theme_switcher" -> theme_switcher_handler(pc, a, L, t)
      [] h = "component_optimizer" -> component_optimizer_handler(pc, a, L, t)
      [] h = "infinite_scroll" -> infinite_scroll_handler(pc, a, L, t)
      [] h = "analyze_hook_logic" -> analyze_hook_logic_handler(pc, a, L, t)
      [] h = "data_fetching" -> data_fetching_handler(pc, a, L, t)
      [] h = "form_factory" -> form_factory_handler(pc, a, L, t)
      [] h = "routing_master" -> routing_master_handler(pc, a, L, t)
      [] h = "search_params_manager" -> search_params_manager_handler(pc, a, L, t)
      [] h = "sitemap_generator" -> sitemap_generator_handler(pc, a, L, t)
      [] h = "component_test_builder" -> component_test_builder_handler(pc, a, L, t)
      [] h = "e2e_frontend_builder" -> e2e_frontend_builder_handler(pc, a, L, t)
      [] h = "hook_test_generator" -> hook_test_generator_handler(pc, a, L, t)
      [] h = "ai_copywriter" -> ai_copywriter_handler(pc, a, L, t)
      [] h = "feedback_system" -> feedback_system_handler(pc, a, L, t)
      [] h = "responsiveHandler" -> responsiveHandler(pc, a, L, t)
      [] h = "skeleton_loader" -> skeleton_loader_handler(pc, a, L, t)
      [] h = "table_generator" -> table_generator_handler(pc, a, L, t)
      [] h = "toast_notification" -> toast_notification_handler(pc, a, L, t)
      [] h = "ui_polish" -> ui_polish_handler(pc, a, L, t)
      [] h = "ui_polish_shadcnHandler" -> ui_polish_shadcnHandler(pc, a, L, t)
      [] h = "shadcnHandler" -> shadcnHandler(pc, a, L, t)

\* parameters.safeParse(a).success, by schema reference
Accepts(s, a) ==
    CASE s = "RateLimitSetupSchema" -> RateLimitSetupSchema(a)
      [] s = "SwaggerDocHelperSchema" -> SwaggerDocHelperSchema(a)
      [] s = "VersioningManagerSchema" -> VersioningManagerSchema(a)
      [] s = "generateNestResourceSchema" -> generateNestResourceSchema(a)
      [] s = "LoggerProviderSchema" -> LoggerProviderSchema(a)
      [] s = "HealthCheckBuilderSchema" -> HealthCheckBuilderSchema(a)
      [] s = "CacheManagerSchema" -> CacheManagerSchema(a)
      [] s = "EmailServiceSchema" -> EmailServiceSchema(a)
      [] s = "WebSocketGatewaySchema" -> WebSocketGatewaySchema(a)
      [] s = "S3UploadSchema" -> S3UploadSchema(a)
      [] s = "GoogleOAuthSchema" -> GoogleOAuthSchema(a)
      [] s = "FileUploadManagerSchema" -> FileUploadManagerSchema(a)
      [] s = "GeminiIntegrationSchema" -> GeminiIntegrationSchema(a)
      [] s = "MercadoPagoIntegrationSchema" -> MercadoPagoIntegrationSchema(a)
      [] s = "CronJobSchedulerSchema" -> CronJobSchedulerSchema(a)
      [] s = "AccessListManagerSchema" -> AccessListManagerSchema(a)
      [] s = "RoleGuardGeneratorSchema" -> RoleGuardGeneratorSchema(a)
      [] s = "TokenBlacklistSchema" -> TokenBlacklistSchema(a)
      [] s = "E2ETestBuilderSchema" -> E2ETestBuilderSchema(a)
      [] s = "LoadTestConfigSchema" -> LoadTestConfigSchema(a)
      [] s = "UnitTestGeneratorSchema" -> UnitTestGeneratorSchema(a)
      [] s = "MigrationExpertSchema" -> MigrationExpertSchema(a)
      [] s = "EntityCreatorSchema" -> EntityCreatorSchema(a)
      [] s = "AuthSessionManagerSchema" -> AuthSessionManagerSchema(a)
      [] s = "AuthGuardSchema" -> AuthGuardSchema(a)
      [] s = "ThemeSwitcherSchema" -> ThemeSwitcherSchema(a)
      [] s = "ComponentOptimizerSchema" -> ComponentOptimizerSchema(a)
      [] s = "InfiniteScrollSchema" -> InfiniteScrollSchema(a)
      [] s = "analyzeHookLogicSchema" -> analyzeHookLogicSchema(a)
      [] s = "DataFetchingSchema" -> DataFetchingSchema(a)
      [] s = "FormFactorySchema" -> FormFactorySchema(a)
      [] s = "RoutingMasterSchema" -> RoutingMasterSchema(a)
      [] s = "SearchParamsManagerSchema" -> SearchParamsManagerSchema(a)
      [] s = "SitemapGeneratorSchema" -> SitemapGeneratorSchema(a)
      [] s = "ComponentTestBuilderSchema" -> ComponentTestBuilderSchema(a)
      [] s = "E2EFrontendBuilderSchema" -> E2EFrontendBuilderSchema(a)
      [] s = "HookTestGeneratorSchema" -> HookTestGeneratorSchema(a)
      [] s = "AiCopywriterSchema" -> AiCopywriterSchema(a)
      [] s = "FeedbackSystemSchema" -> FeedbackSystemSchema(a)
      [] s = "ResponsiveSchema" -> ResponsiveSchema(a)
      [] s = "SkeletonLoaderSchema" -> SkeletonLoaderSchema(a)
      [] s = "TableGeneratorSchema" -> TableGeneratorSchema(a)
      [] s = "ToastNotificationSchema" -> ToastNotificationSchema(a)
      [] s = "UiPolishSchema" -> UiPolishSchema(a)
      [] s = "ui_polish_ShadcnSchema" -> ui_polish_ShadcnSchema(a)
      [] s = "ShadcnSchema" -> ShadcnSchema(a)

\* the argument objects a caller may pass, by schema reference
RawInputs(s) ==
    CASE s = "RateLimitSetupSchema" -> RateLimitSetupInputs
      [] s = "SwaggerDocHelperSchema" -> SwaggerDocHelperInputs
      [] s = "VersioningManagerSchema" -> VersioningManagerInputs
      [] s = "generateNestResourceSchema" -> generateNestResourceInputs
      [] s = "LoggerProviderSchema" -> LoggerProviderInputs
      [] s = "HealthCheckBuilderSchema" -> HealthCheckBuilderInputs
      [] s = "CacheManagerSchema" -> CacheManagerInputs
      [] s = "EmailServiceSchema" -> EmailServiceInputs
      [] s = "WebSocketGatewaySchema" -> WebSocketGatewayInputs
      [] s = "S3UploadSchema" -> S3UploadInputs
      [] s = "GoogleOAuthSchema" -> GoogleOAuthInputs
      [] s = "FileUploadManagerSchema" -> FileUploadManagerInputs
      [] s = "GeminiIntegrationSchema" -> GeminiIntegrationInputs
      [] s = "MercadoPagoIntegrationSchema" -> MercadoPagoIntegrationInputs
      [] s = "CronJobSchedulerSchema" -> CronJobSchedulerInputs
      [] s = "AccessListManagerSchema" -> AccessListManagerInputs
      [] s = "RoleGuardGeneratorSchema" -> RoleGuardGeneratorInputs
      [] s = "TokenBlacklistSchema" -> TokenBlacklistInputs
      [] s = "E2ETestBuilderSchema" -> E2ETestBuilderInputs
      [] s = "LoadTestConfigSchema" -> LoadTestConfigInputs
      [] s = "UnitTestGeneratorSchema" -> UnitTestGeneratorInputs
      [] s = "MigrationExpertSchema" -> MigrationExpertInputs
      [] s = "EntityCreatorSchema" -> EntityCreatorInputs
      [] s = "AuthSessionManagerSchema" -> AuthSessionManagerInputs
      [] s = "AuthGuardSchema" -> AuthGuardInputs
      [] s = "ThemeSwitcherSchema" -> ThemeSwitcherInputs
      [] s = "ComponentOptimizerSchema" -> ComponentOptimizerInputs
      [] s = "InfiniteScrollSchema" -> InfiniteScrollInputs
      [] s = "analyzeHookLogicSchema" -> analyzeHookLogicInputs
      [] s = "DataFetchingSchema" -> DataFetchingInputs
      [] s = "FormFactorySchema" -> FormFactoryInputs
      [] s = "RoutingMasterSchema" -> RoutingMasterInputs
      [] s = "SearchParamsManagerSchema" -> SearchParamsManagerInputs
      [] s = "SitemapGeneratorSchema" -> SitemapGeneratorInputs
      [] s = "ComponentTestBuilderSchema" -> ComponentTestBuilderInputs
      [] s = "E2EFrontendBuilderSchema" -> E2EFrontendBuilderInputs
      [] s = "HookTestGeneratorSchema" -> HookTestGeneratorInputs
      [] s = "AiCopywriterSchema" -> AiCopywriterInputs
      [] s = "FeedbackSystemSchema" -> FeedbackSystemInputs
      [] s = "ResponsiveSchema" -> ResponsiveInputs
      [] s = "SkeletonLoaderSchema" -> SkeletonLoaderInputs
      [] s = "TableGeneratorSchema" -> TableGeneratorInputs
      [] s = "ToastNotificationSchema" -> ToastNotificationInputs
      [] s = "UiPolishSchema" -> UiPolishInputs
      [] s = "ui_polish_ShadcnSchema" -> ui_polish_ShadcnInputs
      [] s = "ShadcnSchema" -> ShadcnInputs

Def(n, p, h) == [name |-> n, parameters |-> p, handler |-> h]

\* every `export const ...: SkillDefinition<...> = {...}` of the repository
SkillDefinitions ==
    [rateLimitSetupSkillDefinition |->
        Def("rate_limit_setup", "RateLimitSetupSchema", "rate_limit_setup"),
     swaggerDocHelperSkillDefinition |->
        Def("swagger_doc_helper", "SwaggerDocHelperSchema", "swagger_doc_helper"),
     versioningManagerSkillDefinition |->
        Def("versioning_manager", "VersioningManagerSchema", "versioning_manager"),
     generateNestResource |->
        Def("generate_nest_resource", "generateNestResourceSchema", "generate_nest_resource"),
     loggerProviderSkillDefinition |->
        Def("logger_provider", "LoggerProviderSchema", "logger_provider"),
     healthCheckBuilderSkillDefinition |->
        Def("health_check_builder", "HealthCheckBuilderSchema", "health_check_builder"),
     cacheManagerSkillDefinition |->
        Def("cache_manager", "CacheManagerSchema", "cache_manager"),
     emailServiceSkillDefinition |->
        Def("email_service_generator", "EmailServiceSchema", "email_service"),
     websocketGatewaySkillDefinition |->
        Def("websocket_gateway_generator", "WebSocketGatewaySchema", "websocket_gateway"),
     s3UploadSkillDefinition |->
        Def("s3_upload_manager", "S3UploadSchema", "s3_upload"),
     googleOAuthSkillDefinition |->
        Def("google_oauth_generator", "GoogleOAuthSchema", "google_oauth"),
     fileUploadManagerSkillDefinition |->
        Def("file_upload_manager", "FileUploadManagerSchema", "file_upload_manager"),
     geminiIntegrationSkillDefinition |->
        Def("gemini_integration", "GeminiIntegrationSchema", "gemini_integration"),
     mercadoPagoIntegrationSkillDefinition |->
        Def("generate_mercadopago_integration", "MercadoPagoIntegrationSchema", "mercado_pago_integration"),
     cronJobSchedulerSkillDefinition |->
        Def("cron_job_scheduler", "CronJobSchedulerSchema", "cron_job_scheduler"),
     accessListManagerSkillDefinition |->
        Def("access_list_manager", "AccessListManagerSchema", "access_list_manager"),
     roleGuardGeneratorSkillDefinition |->
        Def("role_guard_generator", "RoleGuardGeneratorSchema", "role_guard_generator"),
     tokenBlacklistSkillDefinition |->
        Def("token_blacklist", "TokenBlacklistSchema", "token_blacklist"),
     e2eTestBuilderSkillDefinition |->
        Def("e2e_test_builder", "E2ETestBuilderSchema", "e2e_test_builder"),
     loadTestConfigSkillDefinition |->
        Def("load_test_config", "LoadTestConfigSchema", "load_test_config"),
     unitTestGeneratorSkillDefinition |->
        Def("unit_test_generator", "UnitTestGeneratorSchema", "unit_test_generator"),
     migrationExpertSkillDefinition |->
        Def("migration_expert", "MigrationExpertSchema", "migration_expert"),
     entityCreatorSkillDefinition |->
        Def("entity_creator", "EntityCreatorSchema", "entity_creator"),
     authSessionManagerSkillDefinition |->
        Def("generate_auth_session_manager", "AuthSessionManagerSchema", "auth_session_manager"),
     authGuardSkillDefinition |->
        Def("generate_auth_guard", "AuthGuardSchema", "auth_guard"),
     themeSwitcherSkillDefinition |->
        Def("theme_switcher", "ThemeSwitcherSchema", "theme_switcher"),
     componentOptimizerSkillDefinition |->
        Def("component_optimizer", "ComponentOptimizerSchema", "component_optimizer"),
     infiniteScrollSkillDefinition |->
        Def("infinite_scroll_builder", "InfiniteScrollSchema", "infinite_scroll"),
     analyzeHookLogic |->
        Def("analyze_hook_logic", "analyzeHookLogicSchema", "analyze_hook_logic"),
     dataFetchingSkillDefinition |->
        Def("generate_react_query_hook", "DataFetchingSchema", "data_fetching"),
     formFactorySkillDefinition |->
        Def("form_factory", "FormFactorySchema", "form_factory"),
     routingMasterSkillDefinition |->
        Def("routing_master", "RoutingMasterSchema", "routing_master"),
     searchParamsManagerSkillDefinition |->
        Def("search_params_manager", "SearchParamsManagerSchema", "search_params_manager"),
     sitemapGeneratorSkillDefinition |->
        Def("sitemap_generator", "SitemapGeneratorSchema", "sitemap_generator"),
     componentTestBuilderSkillDefinition |->
        Def("component_test_builder", "ComponentTestBuilderSchema", "component_test_builder"),
     e2eFrontendBuilderSkillDefinition |->
        Def("e2e_frontend_builder", "E2EFrontendBuilderSchema", "e2e_frontend_builder"),
     hookTestGeneratorSkillDefinition |->
        Def("hook_test_generator", "HookTestGeneratorSchema", "hook_test_generator"),
     aiCopywriterSkillDefinition |->
        Def("ai_copywriter", "AiCopywriterSchema", "ai_copywriter"),
     feedbackSystemSkillDefinition |->
        Def("generate_feedback_system", "FeedbackSystemSchema", "feedback_system"),
     responsiveSkillDefinition |->
        Def("generate_responsive_layout", "ResponsiveSchema", "responsiveHandler"),
     skeletonLoaderSkillDefinition |->
        Def("skeleton_loader_builder", "SkeletonLoaderSchema", "skeleton_loader"),
     tableGeneratorSkillDefinition |->
        Def("table_generator", "TableGeneratorSchema", "table_generator"),
     toastNotificationSkillDefinition |->
        Def("toast_notification_system", "ToastNotificationSchema", "toast_notification"),
     uiPolishSkillDefinition |->
        Def("ui_polish", "UiPolishSchema", "ui_polish"),
     ui_polish_shadcnSkillDefinition |->
        Def("apply_shadcn_style", "ui_polish_ShadcnSchema", "ui_polish_shadcnHandler"),
     shadcnSkillDefinition |->
        Def("apply_shadcn_style", "ShadcnSchema", "shadcnHandler")]

\* the schema a handler's argument type is inferred from
ParamsOf(h) ==
    SkillDefinitions[CHOOSE d \in DOMAIN SkillDefinitions :
                        SkillDefinitions[d].handler = h].parameters

(***************************************************************************)
(* The frontend index module                                               *)
(***************************************************************************)
\* the definition objects bound by the import statements
IndexImports ==
    {"analyzeHookLogic", "responsiveSkillDefinition", "shadcnSkillDefinition",
     "componentOptimizerSkillDefinition", "formFactorySkillDefinition", "uiPolishSkillDefinition",
     "dataFetchingSkillDefinition", "feedbackSystemSkillDefinition", "authGuardSkillDefinition",
     "aiCopywriterSkillDefinition", "routingMasterSkillDefinition",
     "searchParamsManagerSkillDefinition", "sitemapGeneratorSkillDefinition",
     "authSessionManagerSkillDefinition", "tableGeneratorSkillDefinition",
     "toastNotificationSkillDefinition", "skeletonLoaderSkillDefinition",
     "themeSwitcherSkillDefinition", "infiniteScrollSkillDefinition"}

\* the definition objects the export * statements re-export; shadcn_expert and
\* ui_polish both export the binding shadcnSkillDefinition, the one listed here
\* is the one the import statement binds
ReExports ==
    {"analyzeHookLogic", "responsiveSkillDefinition", "shadcnSkillDefinition",
     "componentOptimizerSkillDefinition", "formFactorySkillDefinition", "uiPolishSkillDefinition",
     "dataFetchingSkillDefinition", "feedbackSystemSkillDefinition", "authGuardSkillDefinition",
     "aiCopywriterSkillDefinition", "routingMasterSkillDefinition",
     "searchParamsManagerSkillDefinition", "sitemapGeneratorSkillDefinition",
     "authSessionManagerSkillDefinition", "themeSwitcherSkillDefinition",
     "componentTestBuilderSkillDefinition", "e2eFrontendBuilderSkillDefinition",
     "hookTestGeneratorSkillDefinition", "tableGeneratorSkillDefinition",
     "toastNotificationSkillDefinition", "skeletonLoaderSkillDefinition",
     "infiniteScrollSkillDefinition"}

RECURSIVE FromEntries(_)
\* an object literal: a later property with the same key replaces the earlier one
FromEntries(es) ==
    IF es = <<>> THEN <<>>
    ELSE LET e == es[Len(es)]
         IN  Put(FromEntries(SubSeq(es, 1, Len(es) - 1)), e[1], e[2])

\* [d.name]: d.handler
Computed(d) == <<SkillDefinitions[d].name, SkillDefinitions[d].handler>>

\* the two properties of frontendSkills.handlers written with a literal key and
\* the imported function
shadcnOfUiPolish ==
    << <<"generate_responsive_layout", "responsiveHandler">>,
       <<"apply_shadcn_style", "ui_polish_shadcnHandler">> >>
LiteralHandlers ==
    << <<"generate_responsive_layout", "responsiveHandler">>,
       <<"apply_shadcn_style", "shadcnHandler">> >>

frontendSkills ==
    [definitions |->
        <<"analyzeHookLogic", "responsiveSkillDefinition", "shadcnSkillDefinition",
          "componentOptimizerSkillDefinition", "formFactorySkillDefinition",
          "uiPolishSkillDefinition", "dataFetchingSkillDefinition",
          "feedbackSystemSkillDefinition", "authGuardSkillDefinition",
          "aiCopywriterSkillDefinition", "routingMasterSkillDefinition",
          "searchParamsManagerSkillDefinition", "sitemapGeneratorSkillDefinition",
          "authSessionManagerSkillDefinition">>,
     handlers |-> FromEntries(
        <<Computed("analyzeHookLogic")>> \o LiteralHandlers
        \o <<Computed("componentOptimizerSkillDefinition"),
             Computed("formFactorySkillDefinition"),
             Computed("uiPolishSkillDefinition"),
             Computed("dataFetchingSkillDefinition"),
             Computed("feedbackSystemSkillDefinition"),
             Computed("authGuardSkillDefinition"),
             Computed("aiCopywriterSkillDefinition"),
             Computed("routingMasterSkillDefinition"),
             Computed("searchParamsManagerSkillDefinition"),
             Computed("sitemapGeneratorSkillDefinition"),
             Computed("authSessionManagerSkillDefinition")>>)]

(***************************************************************************)
(* Invocations                                                             *)
(***************************************************************************)
Slots == 1 .. MaxPar

Idle == [h |-> "", args |-> <<>>, pc |-> 0, loc |-> <<>>, st |-> "idle",
         res |-> NoResult, err |-> "", t |-> 0, via |-> "", key |-> ""]

Busy == {s \in Slots : frames[s].st # "idle"}

\* the lowest idle slot
FreeSlot ==
    CHOOSE x \in Slots : frames[x].st = "idle" /\ \A y \in Slots : y < x => frames[y].st # "idle"

\* bindings declared outside the body of their handler
regexEffectsAtModuleScope(h, v) == ~(h = "analyze_hook_logic" /\ v = "regexEffects")
filesAtModuleScope(h, v) == ~(h = "cache_manager" /\ v = "files")
\* Every const/let of a handler is declared inside the handler's body.
HandlerLocal(h, v) == TRUE

\* the values a frame's statements read
View(f) ==
    [v \in DOMAIN f.loc |->
        IF ~HandlerLocal(f.h, v) /\ <<f.h, v>> \in DOMAIN hoisted
        THEN hoisted[<<f.h, v>>] ELSE f.loc[v]]

RECURSIVE RunAlone(_, _, _, _, _, _)
\* the handler run from statement pc with nothing else running: for n
\* statements, or to its end when n is 0
RunAlone(h, a, pc, L, t, n) ==
    LET out == Handler(h, pc, a, L, t)
    IN  IF out.st = "run" /\ n # 1
        THEN RunAlone(h, a, pc + 1, out.loc, t, IF n = 0 THEN 0 ELSE n - 1)
        ELSE out

\* the outcome of handler h on a as the only call ever made, at clock t
Alone(h, a, t) == RunAlone(h, a, 0, <<>>, t, 0)
\* the same call after its first n statements
AloneAfter(h, a, t, n) == RunAlone(h, a, 0, <<>>, t, n)

Init ==
    /\ defs = SkillDefinitions
    /\ definitions = frontendSkills.definitions
    /\ handlers = frontendSkills.handlers
    /\ now = 0
    /\ frames = [s \in Slots |-> Idle]
    /\ hoisted = <<>>
    /\ settled = 0

\* the clock advances
Tick ==
    /\ now < MaxClock
    /\ now' = now + 1
    /\ UNCHANGED <<definitions, handlers, defs, frames, hoisted, settled>>

\* The caller validates with the definition's schema, then calls its handler:
\* d.parameters.parse(a) throws a ZodError, or d.handler(parsed) is called.
Invoke(limit, d, a) ==
    /\ Cardinality(Busy) < limit
    /\ LET ok == Accepts(defs[d].parameters, a)
       IN  frames' = [frames EXCEPT ![FreeSlot] =
                [Idle EXCEPT !.h = defs[d].handler, !.args = a, !.via = "invoke",
                             !.key = defs[d].name,
                             !.st = IF ok THEN "run" ELSE "rejected",
                             !.err = IF ok THEN "" ELSE "ZodError"]]
    /\ UNCHANGED <<definitions, handlers, defs, now, hoisted, settled>>

\* The caller looks the handler up by name and calls it:
\* frontendSkills.handlers[name](a).
Dispatch(limit, name, a) ==
    /\ Cardinality(Busy) < limit
    /\ HasKey(handlers, name)
    /\ frames' = [frames EXCEPT ![FreeSlot] =
            [Idle EXCEPT !.h = Get(handlers, name), !.args = a, !.via = "dispatch",
                         !.key = name, !.st = "run"]]
    /\ UNCHANGED <<definitions, handlers, defs, now, hoisted, settled>>

\* One statement of a handler body.
Step(s) ==
    /\ frames[s].st = "run"
    /\ LET f == frames[s]
           out == Handler(f.h, f.pc, f.args, View(f), now)
           H == {v \in DOMAIN out.loc : ~HandlerLocal(f.h, v)}
       IN  /\ frames' = [frames EXCEPT ![s] =
                    [f EXCEPT !.pc = f.pc + 1, !.loc = out.loc, !.st = out.st,
                              !.res = out.res, !.err = out.err,
                              !.t = IF f.pc = 0 THEN now ELSE f.t]]
           /\ hoisted' =
                IF H = {} THEN hoisted
                ELSE [p \in DOMAIN hoisted \cup {<<f.h, v>> : v \in H} |->
                        IF p[1] = f.h /\ p[2] \in H
                        THEN (IF f.pc = 0 /\ p \in DOMAIN hoisted
                              THEN hoisted[p] ELSE out.loc[p[2]])
                        ELSE hoisted[p]]
    /\ UNCHANGED <<definitions, handlers, defs, now, settled>>

\* a settle that also drops the first entry of the lookup table
SettleAndForget(s) ==
    /\ frames[s].st \in {"ret", "throw", "rejected"}
    /\ frames' = [frames EXCEPT ![s] = Idle]
    /\ settled' = IF settled < MaxCalls THEN settled + 1 ELSE settled
    /\ handlers' = Tail(handlers)
    /\ UNCHANGED <<definitions, defs, now, hoisted>>

\* The promise settles: the caller has the result, the rejection or the ZodError.
Settle(s) ==
    /\ frames[s].st \in {"ret", "throw", "rejected"}
    /\ frames' = [frames EXCEPT ![s] = Idle]
    /\ settled' = IF settled < MaxCalls THEN settled + 1 ELSE settled
    /\ UNCHANGED <<definitions, handlers, defs, now, hoisted>>

\* the names a caller can ask for and the arguments it may pass under each
DispatchInputs(name) ==
    RawInputs(defs[CHOOSE d \in DOMAIN defs :
                    defs[d].name = name /\ defs[d].handler = Get(handlers, name)].parameters)

Next ==
    \/ Tick
    \/ \E d \in DOMAIN defs : \E a \in RawInputs(defs[d].parameters) : Invoke(1, d, a)
    \/ \E i \in DOMAIN handlers : \E a \in DispatchInputs(handlers[i][1]) :
            Dispatch(1, handlers[i][1], a)
    \/ \E s \in Slots : Step(s)
    \/ \E s \in Slots : Settle(s)

Spec == Init /\ [][Next]_vars

\* the calls that race in SpecPar: two cache_manager calls that write different
\* file maps, a websocket_gateway call and an analyze_hook_logic call
ParallelInputs(p) ==
    CASE p = "CacheManagerSchema" ->
            {a \in CacheManagerInputs : a.cacheType = <<"redis">> /\ a.generateInterceptor}
      [] p = "WebSocketGatewaySchema" ->
            {a \in WebSocketGatewayInputs :
                /\ a.namespace = Undefined /\ a.withAuth /\ a.withRooms
                /\ Len(a.events) = 1 /\ a.events[1].name # Undefined}
      [] p = "analyzeHookLogicSchema" ->
            {a \in analyzeHookLogicInputs :
                /\ a.fileName = <<"useUsers.ts">>
                /\ a.code # Undefined /\ Len(a.code) = 3}
      [] OTHER -> {}

\* any number of calls up to MaxPar in flight at once, their statements interleaved
NextPar ==
    \/ \E d \in DOMAIN defs : \E a \in ParallelInputs(defs[d].parameters) : Invoke(MaxPar, d, a)
    \/ \E s \in Slots : Step(s)
    \/ \E s \in Slots : Settle(s)

SpecPar == Init /\ [][NextPar]_vars

(***************************************************************************)
(* Properties                                                              *)
(***************************************************************************)
\* the frame's arguments satisfy the schema its handler's argument type comes from
Valid(f) == f.st # "idle" /\ Accepts(ParamsOf(f.h), f.args)
Finished(f) == f.st \in {"ret", "throw"}
Outcome(x) == [st |-> x.st, res |-> x.res, err |-> x.err]

\* C1: for every skill and every input its schema accepts, the handler's result
\* has success = true and a non-empty data (a non-empty string or a mapping
\* with at least one file).
C1_AcceptedInputSucceedsWithData ==
    \A s \in Slots :
        (Valid(frames[s]) /\ frames[s].st = "ret")
            => (frames[s].res.success /\ frames[s].res.data # <<>>)

\* C2: an invocation dispatched through the registry with an input that violates
\* the skill's schema is rejected before the handler body executes: no statement
\* of the handler ever runs on an invalid input.
C2_InvalidInputNeverRuns ==
    \A s \in Slots :
        (frames[s].via = "dispatch" /\ ~Valid(frames[s])) => frames[s].pc = 0

\* C3: for every skill and every input its schema accepts, the handler returns
\* a SkillResult and never raises an error.
C3_AcceptedInputNeverThrows ==
    \A s \in Slots : Valid(frames[s]) => frames[s].st # "throw"

\* the text with every occurrence of the clock reading ts left out of the comparison
ExcludeTimestamp(data, ts) ==
    [i \in DOMAIN data |-> IF data[i] = ToString(ts) THEN "<timestamp>" ELSE data[i]]

\* C4 as stated: two invocations with identical valid input return byte-identical
\* data whatever the clock reads at each of them.
C4_DataIndependentOfTime ==
    \A s \in Slots :
        (Valid(frames[s]) /\ frames[s].st = "ret")
            => \A t2 \in 0 .. MaxClock :
                    Alone(frames[s].h, frames[s].args, t2).res.data = frames[s].res.data

\* C4 amended: for every skill but migration_expert the data of two invocations
\* with identical valid input is identical whatever the clock reads; the data of
\* migration_expert is identical when both read the same clock value, and
\* otherwise differs only where it embeds the value it reports as
\* metadata.timestamp.
C4_DataIndependentOfTimeButReportedTimestamp ==
    \A s \in Slots :
        (Valid(frames[s]) /\ frames[s].st = "ret")
            => \A t2 \in 0 .. MaxClock :
                LET f == frames[s]
                    r2 == Alone(f.h, f.args, t2).res
                IN  IF f.h = "migration_expert"
                    THEN /\ ExcludeTimestamp(r2.data, r2.metadata.timestamp)
                                = ExcludeTimestamp(f.res.data, f.res.metadata.timestamp)
                         /\ (t2 = f.t => r2.data = f.res.data)
                    ELSE r2.data = f.res.data

C4_Witness ==
    \E s \in Slots :
        /\ frames[s].h = "migration_expert" /\ frames[s].st = "ret" /\ Valid(frames[s])
        /\ frames[s].t = 1
        /\ Alone(frames[s].h, frames[s].args, 0).res.data # frames[s].res.data

\* C5: after any sequence of earlier invocations, an invocation yields what the
\* same invocation yields as the very first call: no handler keeps state from
\* one call to the next.
C5_SameAsFirstCall ==
    \A s \in Slots :
        Finished(frames[s])
            => Outcome(frames[s]) = Outcome(Alone(frames[s].h, frames[s].args, frames[s].t))

C5_Witness ==
    /\ settled >= 1
    /\ \E s \in Slots :
        /\ frames[s].h = "analyze_hook_logic" /\ frames[s].st = "ret"
        /\ frames[s].loc.found /\ frames[s].loc.regexEffects.lastIndex > 0

\* C6: whatever the number of invocations in flight and the interleaving of
\* their statements, each invocation is, after each of its statements, where
\* it would be running alone: its variables, and its result once it has one.
C6_ParallelEqualsAlone ==
    \A s \in Slots :
        (frames[s].st \in {"run", "ret", "throw"} /\ frames[s].pc > 0)
            => LET f == frames[s]
                   solo == AloneAfter(f.h, f.args, f.t, f.pc)
               IN  f.loc = solo.loc /\ Outcome(f) = Outcome(solo)

C6_Witness ==
    \E s1, s2 \in Slots :
        /\ s1 # s2
        /\ frames[s1].h = "cache_manager" /\ frames[s2].h = "cache_manager"
        /\ frames[s1].args # frames[s2].args
        /\ frames[s1].st = "ret" /\ frames[s2].st = "run" /\ frames[s2].pc > 2
        /\ frames[s1].res.data # <<>>

\* C7: every SkillDefinition the frontend index module imports or re-exports is
\* an element of frontendSkills.definitions and has an entry under its name in
\* frontendSkills.handlers.
C7_RegistryAggregatesAll ==
    \A d \in IndexImports \cup ReExports :
        Includes(definitions, d) /\ HasKey(handlers, defs[d].name)

\* C8: no two SkillDefinition objects of the repository carry the same name.
C8_SkillNamesUnique ==
    \A d1, d2 \in DOMAIN defs : d1 # d2 => defs[d1].name # defs[d2].name

\* C9: for every definition d in frontendSkills.definitions,
\* frontendSkills.handlers[d.name] is d.handler, and every key of
\* frontendSkills.handlers is the name of exactly one definition in
\* frontendSkills.definitions.
C9_RegistryConsistent ==
    /\ \A i \in DOMAIN definitions :
            LET d == defs[definitions[i]]
            IN  HasKey(handlers, d.name) /\ Get(handlers, d.name) = d.handler
    /\ \A k \in DOMAIN handlers :
            Cardinality({i \in DOMAIN definitions :
                            defs[definitions[i]].name = handlers[k][1]}) = 1

C9_Witness ==
    \E s \in Slots :
        /\ frames[s].via = "dispatch" /\ frames[s].key = "apply_shadcn_style"
        /\ frames[s].h = defs.shadcnSkillDefinition.handler
        /\ frames[s].st = "ret"

EnumLine(name, value) == <<"  ">> \o name \o <<" = '">> \o value \o <<"',">>
\* an enum declaration with the given lines
EnumText(name, lines) ==
    <<"export enum ">> \o name \o <<" {\n">> \o Join(lines, <<"\n">>) \o <<"\n}">>
\* the returns of role_guard_generator
RoleGuardReturns ==
    {s \in Slots : frames[s].h = "role_guard_generator" /\ frames[s].st = "ret"
                    /\ Valid(frames[s])}

\* C11 as stated: role_guard_generator emits in roles.enum.ts an enum named
\* rolesEnumName with exactly one member per entry of defaultRoles, in order,
\* each member named by the upper-cased role and mapped to the role's lowercase
\* string value; for defaultRoles = [admin, user] the enum has exactly the two
\* members ADMIN = 'admin' and USER = 'user'.
C11_EnumMembersLowercaseValues ==
    \A s \in RoleGuardReturns :
        LET a == frames[s].args
            roles == a.defaultRoles
        IN  Get(frames[s].res.data, <<"roles.enum.ts">>) =
                EnumText(a.rolesEnumName,
                    [i \in DOMAIN roles |->
                        EnumLine(toUpperCase(roles[i]), toLowerCase(roles[i]))])

\* C11 amended: role_guard_generator emits in roles.enum.ts an enum named
\* rolesEnumName with exactly one member per entry of defaultRoles, in order,
\* each member named by the upper-cased role and mapped to the role string
\* exactly as given (lower case only when the role was given in lower case);
\* for defaultRoles = [admin, user] the enum has exactly the two members
\* ADMIN = 'admin' and USER = 'user'.
C11_EnumMembersValuesAsGiven ==
    \A s \in RoleGuardReturns :
        LET a == frames[s].args
            roles == a.defaultRoles
            enum == Get(frames[s].res.data, <<"roles.enum.ts">>)
        IN  /\ enum = EnumText(a.rolesEnumName,
                        [i \in DOMAIN roles |-> EnumLine(toUpperCase(roles[i]), roles[i])])
            /\ roles = << <<"admin">>, <<"user">> >> =>
                    enum = <<"export enum ", "UserRole", " {\n",
                             "  ", "ADMIN", " = '", "admin", "',", "\n",
                             "  ", "USER", " = '", "user", "',", "\n}">>

C11_Witness ==
    \E s \in RoleGuardReturns :
        /\ frames[s].args.defaultRoles = << <<"admin">>, <<"ADMIN">> >>
        /\ Contains(Get(frames[s].res.data, <<"roles.enum.ts">>), "ADMIN")

\* the invocations of table_generator that passed through the registry or ran
TableCalls == {s \in Slots : frames[s].h = "table_generator" /\ frames[s].st # "idle"}

\* C12: table_generator called with an empty columns list and a tableName is
\* accepted by its schema and returns success = true with a column-less table:
\* no column definition and no per-column row field is emitted and
\* metadata.columns is 0; the call is never rejected as a validation failure.
C12_EmptyColumnsAccepted ==
    \A s \in TableCalls :
        LET f == frames[s] IN
        (f.args.columns = <<>> /\ f.args.tableName # Undefined)
            => /\ Valid(f)
               /\ f.st \notin {"rejected", "throw"}
               /\ f.st = "ret" =>
                    /\ f.res.success
                    /\ f.res.metadata.columns = Whole(0)
                    /\ ~Contains(f.res.data, "\n  {\n    accessorKey: \"")
                    /\ ~Contains(f.res.data, ": string;")
                    /\ f.loc.columnDefs = <<>>

C12_Witness ==
    \E s \in TableCalls :
        /\ frames[s].via = "invoke" /\ frames[s].st = "ret"
        /\ frames[s].args.columns = <<>> /\ frames[s].args.tableName # Undefined
        /\ frames[s].res.data # <<>>

\* the four optional blocks of the generated table
PaginationRowModel == "getPaginationRowModel: getPaginationRowModel(),"
PaginationControls ==
    "<div className=\"flex items-center justify-end gap-2\">\n        <Button onClick={() => table.previousPage()}>\n          Previous\n        </Button>\n        <Button onClick={() => table.nextPage()}>\n          Next\n        </Button>\n      </div>"
SearchInput == "<Input\n        placeholder=\"Search...\"\n      />"
ActionsColumn == "{\n    id: \"actions\",\n    cell: ({ row }) => (<DropdownMenu />),\n  },"
\* which of the blocks a generated table holds
TableBlocks(code) ==
    [rowModel |-> Contains(code, PaginationRowModel),
     controls |-> Contains(code, PaginationControls),
     search |-> Contains(code, SearchInput),
     actions |-> Contains(code, ActionsColumn)]

\* C13: in table_generator each optional block is included exactly when its
\* flag is true, independently of the other flags: the pagination row model
\* and the Previous/Next controls appear iff withPagination, the search input
\* appears iff withSearch, the actions column appears iff withRowActions, and
\* metadata.features reports the three flags as given.
C13_BlocksFollowTheirFlags ==
    \A s \in TableCalls :
        LET f == frames[s]
            a == f.args
        IN  (Valid(f) /\ f.st = "ret") =>
                /\ TableBlocks(f.res.data) =
                        [rowModel |-> a.withPagination, controls |-> a.withPagination,
                         search |-> a.withSearch, actions |-> a.withRowActions]
                /\ f.res.metadata.features =
                        [withPagination |-> a.withPagination, withSearch |-> a.withSearch,
                         withRowActions |-> a.withRowActions]
                /\ \A p, q \in BOOL :
                    LET blocks(b) == TableBlocks(Alone(f.h, b, f.t).res.data) IN
                    /\ blocks([a EXCEPT !.withSearch = p, !.withRowActions = q]).rowModel
                            = a.withPagination
                    /\ blocks([a EXCEPT !.withSearch = p, !.withRowActions = q]).controls
                            = a.withPagination
                    /\ blocks([a EXCEPT !.withPagination = p, !.withRowActions = q]).search
                            = a.withSearch
                    /\ blocks([a EXCEPT !.withPagination = p, !.withSearch = q]).actions
                            = a.withRowActions

C13_Witness ==
    \E s \in TableCalls :
        /\ Valid(frames[s]) /\ frames[s].st = "ret"
        /\ frames[s].args.withPagination /\ ~frames[s].args.withSearch
        /\ ~frames[s].args.withRowActions
        /\ Contains(frames[s].res.data, PaginationControls)
        /\ ~Contains(frames[s].res.data, SearchInput)

\* the returns of email_service_generator on accepted input
EmailReturns ==
    {s \in Slots : frames[s].h = "email_service" /\ frames[s].st = "ret" /\ Valid(frames[s])}
\* the three parts of queue support in the generated files
EmailQueueParts(files) ==
    [registered |->
        /\ Contains(Get(files, <<"email.module.ts">>),
                    "imports: [BullModule.registerQueue({ name: 'email' })],")
        /\ Contains(Get(files, <<"email.module.ts">>), ", EmailProcessor"),
     processor |-> HasKey(files, <<"email.processor.ts">>),
     sendAsync |->
        Contains(Get(files, <<"email.service.ts">>),
                 "async sendAsync(options) { await this.emailQueue.add('send', options); }")]

\* C14: email_service_generator provides queue support for every provider
\* (nodemailer, sendgrid, resend): when queueSupport is true the module
\* registers the 'email' queue and EmailProcessor, email.processor.ts is
\* generated and the generated EmailService contains the queue-enqueueing
\* method sendAsync; when queueSupport is false none of the three is present.
C14_QueueSupportForEveryProvider ==
    \A s \in EmailReturns :
        LET q == frames[s].args.queueSupport IN
        EmailQueueParts(frames[s].res.data) =
            [registered |-> q, processor |-> q, sendAsync |-> q]

\* the returns of websocket_gateway_generator on accepted input
GatewayReturns ==
    {s \in Slots : frames[s].h = "websocket_gateway" /\ frames[s].st = "ret"
                    /\ Valid(frames[s])}

\* C15: websocket_gateway_generator generates gateway, guard and React hook:
\* data always contains '<gatewayName lower-cased>.gateway.ts',
\* '<gatewayName lower-cased>.module.ts' and 'use-socket.hook.ts', and contains
\* 'ws-jwt.guard.ts' exactly when withAuth is true; the gateway imports and
\* applies WsJwtGuard and the module imports JwtModule exactly when withAuth
\* is true.
C15_GatewayGuardHook ==
    \A s \in GatewayReturns :
        LET a == frames[s].args
            files == frames[s].res.data
            lower == toLowerCase(a.gatewayName)
            gateway == Get(files, lower \o <<".gateway.ts">>)
            module == Get(files, lower \o <<".module.ts">>)
        IN  /\ HasKey(files, lower \o <<".gateway.ts">>)
            /\ HasKey(files, lower \o <<".module.ts">>)
            /\ a.gatewayName = <<"Events">> =>
                    /\ HasKey(files, <<"events", ".gateway.ts">>)
                    /\ HasKey(files, <<"events", ".module.ts">>)
            /\ HasKey(files, <<"use-socket.hook.ts">>)
            /\ HasKey(files, <<"ws-jwt.guard.ts">>) <=> a.withAuth
            /\ Contains(gateway, "import { WsJwtGuard } from './ws-jwt.guard';") <=> a.withAuth
            /\ Contains(gateway, "@UseGuards(WsJwtGuard)") <=> a.withAuth
            /\ Contains(module, "import { JwtModule } from '@nestjs/jwt';") <=> a.withAuth
            /\ Contains(module, "imports: [JwtModule.register({ secret })],") <=> a.withAuth

C15_Witness ==
    \E s \in GatewayReturns :
        /\ frames[s].args.withAuth
        /\ HasKey(frames[s].res.data, <<"ws-jwt.guard.ts">>)
        /\ HasKey(frames[s].res.data, <<"events", ".gateway.ts">>)
        /\ Len(frames[s].res.data) = 4

\* the returns of cache_manager on accepted input
CacheReturns ==
    {s \in Slots : frames[s].h = "cache_manager" /\ frames[s].st = "ret" /\ Valid(frames[s])}

\* C16: cache_manager generates module, service and @Cacheable decorator: data
\* always contains cache.module.ts, cache.service.ts and cache.example.ts,
\* contains cacheable.decorator.ts exactly when generateDecorator is true and
\* cache.interceptor.ts exactly when generateInterceptor is true; the redis
\* store import and connection options appear in the module exactly when
\* cacheType is 'redis'.
C16_CacheFilesFollowFlags ==
    \A s \in CacheReturns :
        LET a == frames[s].args
            files == frames[s].res.data
            module == Get(files, <<"cache.module.ts">>)
        IN  /\ HasKey(files, <<"cache.module.ts">>)
            /\ HasKey(files, <<"cache.service.ts">>)
            /\ HasKey(files, <<"cache.example.ts">>)
            /\ HasKey(files, <<"cacheable.decorator.ts">>) <=> a.generateDecorator
            /\ HasKey(files, <<"cache.interceptor.ts">>) <=> a.generateInterceptor
            /\ Contains(module, "import * as redisStore from 'cache-manager-redis-store';")
                    <=> a.cacheType = <<"redis">>
            /\ Contains(module, "store: redisStore, host, port, password,")
                    <=> a.cacheType = <<"redis">>

C16_Witness ==
    \E s \in CacheReturns :
        /\ frames[s].args.cacheType = <<"memory">>
        /\ frames[s].args.generateDecorator /\ ~frames[s].args.generateInterceptor
        /\ Keys(frames[s].res.data) =
                << <<"cache.module.ts">>, <<"cache.service.ts">>,
                   <<"cacheable.decorator.ts">>, <<"cache.example.ts">> >>

\* PascalCase to snake_case on the entity names the model enumerates
snake_case(s) ==
    [i \in DOMAIN s |->
        CASE s[i] = "UserProfile" -> "user_profile"
          [] s[i] = "User" -> "user"
          [] s[i] = "Order" -> "order"
          [] OTHER -> s[i]]
\* the returns of entity_creator on accepted input
EntityReturns ==
    {s \in Slots : frames[s].h = "entity_creator" /\ frames[s].st = "ret" /\ Valid(frames[s])}

\* C17: entity_creator: when tableName is omitted the table name defaults to
\* entityName in snake_case (UserProfile gives user_profile) and that is the
\* value reported in metadata.table; when tableName is given, metadata.table
\* and the name option of @Entity both equal tableName.
C17_TableNameDefaultsToSnakeCase ==
    \A s \in EntityReturns :
        LET a == frames[s].args
            r == frames[s].res
        IN  IF a.tableName = Undefined
            THEN /\ r.metadata.table = snake_case(a.entityName)
                 /\ a.entityName = <<"UserProfile">> => r.metadata.table = <<"user_profile">>
            ELSE /\ r.metadata.table = a.tableName
                 /\ frames[s].loc.tableOption = <<"name: '">> \o a.tableName \o <<"'">>

\* the returns of access_list_manager on accepted input
AccessListReturns ==
    {s \in Slots : frames[s].h = "access_list_manager" /\ frames[s].st = "ret"
                    /\ Valid(frames[s])}
\* what the branch taken on a match does in the generated guard
MatchBranchThrows(code) ==
    \/ Contains(code, "warn('Blocked access from unauthorized IP'); throw new ForbiddenException('Access denied from your IP address');")
    \/ Contains(code, "warn('Blocked blacklisted IP'); throw new ForbiddenException('Your IP address has been blocked');")
MatchBranchLogsAndPasses(code) ==
    \/ Contains(code, "warn('Access from unauthorized IP'); return true;")
    \/ Contains(code, "warn('Detected blacklisted IP'); return true;")

\* C18: access_list_manager: the action parameter is the action the generated
\* guard takes when a match is found (listed IP for a blacklist, unlisted IP
\* for a whitelist): with 'deny' the matching branch throws ForbiddenException,
\* with 'allow' the matching branch lets the request through, with 'log_only'
\* it logs and lets the request through; the guard class is IpWhitelistGuard
\* iff type is 'whitelist' and metadata.config.count equals the number of ips.
C18_ActionDecidesMatchBranch ==
    \A s \in AccessListReturns :
        LET a == frames[s].args
            r == frames[s].res
        IN  /\ a.action = <<"deny">> =>
                    MatchBranchThrows(r.data) /\ ~MatchBranchLogsAndPasses(r.data)
            /\ a.action = <<"allow">> => ~MatchBranchThrows(r.data)
            /\ a.action = <<"log_only">> =>
                    MatchBranchLogsAndPasses(r.data) /\ ~MatchBranchThrows(r.data)
            /\ (r.metadata.guard = <<"IpWhitelistGuard">>) <=> (a.type = <<"whitelist">>)
            /\ Contains(r.data, "IpWhitelistGuard") <=> (a.type = <<"whitelist">>)
            /\ r.metadata.config.count = Len(a.ips)

\* the returns of generate_nest_resource on accepted input
NestResourceReturns ==
    {s \in Slots : frames[s].h = "generate_nest_resource" /\ frames[s].st = "ret"
                    /\ Valid(frames[s])}
\* the component a generated file belongs to, by the suffix of its path
ComponentOf(key) ==
    LET suffix == key[Len(key)]
    IN  CASE suffix = ".controller.ts" -> <<"controller">>
          [] suffix = ".service.ts" -> <<"service">>
          [] suffix = ".module.ts" -> <<"module">>
          [] suffix = ".dto.ts" -> <<"dto">>
          [] suffix = ".entity.ts" -> <<"entity">>
          [] OTHER -> <<"none">>
\* the paths of the files generated for component c
FilesFor(files, c) == {i \in DOMAIN files : ComponentOf(files[i][1]) = c}

\* C19: generate_nest_resource generates the listed components: for every
\* component value in components (module, controller, service, dto, entity)
\* data contains at least one file for that component, and data contains no
\* file for a component that is not listed; dto yields exactly the create and
\* update DTO files.
C19_ListedComponentsGenerated ==
    \A s \in NestResourceReturns :
        LET a == frames[s].args
            files == frames[s].res.data
        IN  /\ \A c \in NestComponents :
                    (FilesFor(files, c) # {}) <=> Includes(a.components, c)
            /\ \A i \in DOMAIN files : ComponentOf(files[i][1]) \in NestComponents
            /\ Includes(a.components, <<"dto">>) =>
                    {files[i][1] : i \in FilesFor(files, <<"dto">>)} =
                        {a.path \o <<"/">> \o a.resourceName \o <<"/dto/create-">>
                            \o a.resourceName \o <<".dto.ts">>,
                         a.path \o <<"/">> \o a.resourceName \o <<"/dto/update-">>
                            \o a.resourceName \o <<".dto.ts">>}

\* the inputs the schema of handler h accepts
ValidInputs(h) == {x \in RawInputs(ParamsOf(h)) : Accepts(ParamsOf(h), x)}
\* two accepted inputs of h differ in the field alone and h tells them apart
FieldInfluences(h, field) ==
    \E a, b \in ValidInputs(h) :
        /\ a[field] # b[field]
        /\ \A g \in DOMAIN a \ {field} : a[g] = b[g]
        /\ \E t \in 0 .. MaxClock : Outcome(Alone(h, a, t)) # Outcome(Alone(h, b, t))
\* the four fields the statement names
NamedFields ==
    {<<"file_upload_manager", "allowedMimeTypes">>, <<"versioning_manager", "prefix">>,
     <<"cron_job_scheduler", "withLocking">>, <<"routing_master", "isDynamic">>}

\* C20: a declared field is dropped from the output only depending on sibling
\* flags: for every skill and every field of its schema there exist two valid
\* inputs that differ only in that field and produce different results (data
\* or metadata); in particular for allowedMimeTypes of file_upload_manager,
\* prefix of versioning_manager, withLocking of cron_job_scheduler and
\* isDynamic of routing_master.
C20_EveryFieldInfluencesResult ==
    \A s \in Slots :
        (frames[s].st = "ret" /\ Valid(frames[s]))
            => \A hf \in NamedFields : FieldInfluences(hf[1], hf[2])

\* the invocations of health_check_builder
HealthCalls == {s \in Slots : frames[s].h = "health_check_builder" /\ frames[s].st # "idle"}
DatabaseCheck == <<"() => this.db.pingCheck('database')">>
DatabaseImport == <<"import { TypeOrmHealthIndicator } from '@nestjs/terminus';">>
DatabaseInjection == <<"private db: TypeOrmHealthIndicator">>
MemoryImport == <<"import { MemoryHealthIndicator } from '@nestjs/terminus';">>
MemoryInjection == <<"private memory: MemoryHealthIndicator">>
\* xs holds a memory heap check
HasMemoryCheck(xs) ==
    \E i \in DOMAIN xs : xs[i][1] = "() => this.memory.checkHeap('memory_heap', "

\* C21: health_check_builder: the generated check list contains the database
\* ping check iff checkDatabase and the memory heap check iff checkMemory, and
\* each indicator (TypeOrmHealthIndicator, MemoryHealthIndicator) is imported
\* and constructor-injected exactly when its check is in the list; with both
\* flags false the call is accepted and the result is still success = true
\* with an empty check list and only HealthCheckService injected.
C21_ChecksFollowFlags ==
    \A s \in HealthCalls :
        LET f == frames[s]
            a == f.args
        IN  /\ Valid(f) /\ f.st \notin {"rejected", "throw"}
            /\ f.st = "ret" =>
                /\ f.res.success
                /\ Includes(f.loc.checks, DatabaseCheck) <=> a.checkDatabase
                /\ HasMemoryCheck(f.loc.checks) <=> a.checkMemory
                /\ Includes(f.loc.imports, DatabaseImport) <=> Includes(f.loc.checks, DatabaseCheck)
                /\ Includes(f.loc.constructorArgs, DatabaseInjection)
                        <=> Includes(f.loc.checks, DatabaseCheck)
                /\ Includes(f.loc.imports, MemoryImport) <=> HasMemoryCheck(f.loc.checks)
                /\ Includes(f.loc.constructorArgs, MemoryInjection)
                        <=> HasMemoryCheck(f.loc.checks)
                /\ Contains(f.res.data, DatabaseCheck[1]) <=> a.checkDatabase
                /\ Contains(f.res.data, DatabaseImport[1]) <=> a.checkDatabase
                /\ Contains(f.res.data, DatabaseInjection[1]) <=> a.checkDatabase
                /\ Contains(f.res.data, "() => this.memory.checkHeap('memory_heap', ")
                        <=> a.checkMemory
                /\ Contains(f.res.data, MemoryImport[1]) <=> a.checkMemory
                /\ Contains(f.res.data, MemoryInjection[1]) <=> a.checkMemory
                /\ (~a.checkDatabase /\ ~a.checkMemory) =>
                        /\ f.loc.checks = <<>>
                        /\ f.loc.constructorArgs = << <<"private health: HealthCheckService">> >>

C21_Witness ==
    \E s \in HealthCalls :
        /\ frames[s].via = "invoke" /\ frames[s].st = "ret"
        /\ ~frames[s].args.checkDatabase /\ ~frames[s].args.checkMemory
        /\ frames[s].loc.checks = <<>> /\ frames[s].res.success

\* the returns of component_optimizer on accepted input
OptimizerReturns ==
    {s \in Slots : frames[s].h = "component_optimizer" /\ frames[s].st = "ret"
                    /\ Valid(frames[s])}
\* the hook names, event-handler names and browser-API tokens of the heuristics
ClientTokens ==
    {"useState", "useEffect", "useCallback", "useContext", "useRef", "useReducer",
     "onClick", "onChange", "onSubmit", "onMouseEnter",
     "window.", "document.", "localStorage", "sessionStorage"}
\* the first lexeme of code that is not whitespace is a 'use client' directive
LeadingUseClient(code) ==
    \E i \in DOMAIN code :
        /\ code[i] \in {"'use client'", "\"use client\""}
        /\ \A j \in 1 .. (i - 1) : IsSpace(code[j])

\* C22: component_optimizer: recommendedType is 'client' iff the code contains
\* at least one listed hook name, event-handler name or browser-API token,
\* otherwise 'server'; issues holds at most one entry and is empty exactly
\* when the presence of a leading 'use client' directive agrees with
\* recommendedType = 'client'; reasoning is never empty and success is always
\* true.
C22_RecommendationFollowsTokens ==
    \A s \in OptimizerReturns :
        LET code == frames[s].args.code
            data == frames[s].res.data
            client == \E x \in ClientTokens : Contains(code, x)
            type == Get(data, "recommendedType")
            issues == Get(data, "issues")
        IN  /\ type = IF client THEN <<"client">> ELSE <<"server">>
            /\ Len(issues) <= 1
            /\ (issues = <<>>) <=> (LeadingUseClient(code) <=> (type = <<"client">>))
            /\ Get(data, "reasoning") # <<>>
            /\ frames[s].res.success

C22_Witness ==
    \E s \in OptimizerReturns :
        /\ frames[s].args.code = <<" ", "\"use client\"", "useState", "onClick">>
        /\ Get(frames[s].res.data, "recommendedType") = <<"client">>
        /\ Get(frames[s].res.data, "issues") = <<>>
        /\ Len(Get(frames[s].res.data, "reasoning")) = 2

\* the handlers whose data is a mapping from file name to file content
FileMapHandlers ==
    {"generate_nest_resource", "cache_manager", "email_service", "websocket_gateway",
     "s3_upload", "google_oauth", "file_upload_manager", "cron_job_scheduler",
     "role_guard_generator", "token_blacklist", "theme_switcher", "routing_master",
     "sitemap_generator", "toast_notification"}
\* the returns of those handlers on accepted input
FileMapReturns ==
    {s \in Slots : frames[s].h \in FileMapHandlers /\ frames[s].st = "ret" /\ Valid(frames[s])}

RECURSIVE PathText(_)
\* a file name as one string
PathText(key) == IF key = <<>> THEN "" ELSE Head(key) \o PathText(Tail(key))
\* the part of a lexeme of a file name up to its last slash ("" when it has none)
DirPart(tok) ==
    CASE tok = "/" -> "/"
      [] tok \in {"/dto/create-", "/dto/update-"} -> "/dto/"
      [] tok \in {"templates/welcome.hbs", "templates/password-reset.hbs",
                  "templates/order-confirmation.hbs"} -> "templates/"
      [] tok = "app/sitemap.ts" -> "app/"
      [] OTHER -> ""
\* the directory of a file, with its trailing slash
DirText(key) ==
    LET slashes == {i \in DOMAIN key : DirPart(key[i]) # ""}
    IN  IF slashes = {} THEN ""
        ELSE LET last == CHOOSE i \in slashes : \A j \in slashes : j <= i
             IN  PathText(SubSeq(key, 1, last - 1)) \o DirPart(key[last])

\* the lexemes that hold a whole import from a './' path, with the path after './'
WholeImports ==
    {<<" } from './roles.decorator';", "roles.decorator">>,
     <<" } from './roles.enum';", "roles.enum">>,
     <<"import { AuthController } from './auth.controller';", "auth.controller">>,
     <<"import { AuthService } from './auth.service';", "auth.service">>,
     <<"import { CACHE_KEY_METADATA, CACHE_TTL_METADATA } from './cacheable.decorator';",
       "cacheable.decorator">>,
     <<"import { CacheService } from './cache.service';", "cache.service">>,
     <<"import { Cacheable } from './cacheable.decorator';", "cacheable.decorator">>,
     <<"import { CloudinaryResponse } from './cloudinary-response';", "cloudinary-response">>,
     <<"import { CustomCacheInterceptor } from './cache.interceptor';", "cache.interceptor">>,
     <<"import { EmailProcessor } from './email.processor';", "email.processor">>,
     <<"import { EmailService } from './email.service';", "email.service">>,
     <<"import { EmailService, SendEmailOptions } from './email.service';", "email.service">>,
     <<"import { GoogleAuthGuard } from './google-auth.guard';", "google-auth.guard">>,
     <<"import { GoogleStrategy } from './google.strategy';", "google.strategy">>,
     <<"import { UploadController } from './upload.controller';", "upload.controller">>,
     <<"import { UploadService } from './upload.service';", "upload.service">>,
     <<"import { WsJwtGuard } from './ws-jwt.guard';", "ws-jwt.guard">>,
     <<"import { useTheme } from \"./theme-provider\";", "theme-provider">>,
     <<"import { useToast } from \"./use-toast\";", "use-toast">>}
\* an import whose path embeds a name: the lexeme before the name and the one after
ImportOpenings ==
    {<<"Service } from './", "">>, <<"Controller } from './", "">>, <<"Gateway } from './", "">>,
     <<"Dto } from './create-", "create-">>, <<"Dto } from './dto/create-", "dto/create-">>,
     <<"Dto } from './dto/update-", "dto/update-">>}
ImportClosings ==
    {<<".service';\n", ".service">>, <<".service';", ".service">>,
     <<".controller';\n", ".controller">>, <<".gateway';", ".gateway">>,
     <<".dto';", ".dto">>, <<".dto';\n\n", ".dto">>}
\* the './' paths a file content imports
RelativeImports(content) ==
    {w[2] : w \in {x \in WholeImports : \E i \in DOMAIN content : content[i] = x[1]}}
    \cup UNION {UNION {{o[2] \o content[i + 1] \o c[2] :
                            c \in {y \in ImportClosings : y[1] = content[i + 2]}} :
                       o \in {x \in ImportOpenings : x[1] = content[i]}} :
                i \in {j \in DOMAIN content : j + 2 <= Len(content)}}
\* the imports of the file at index i that no file of the mapping resolves
Dangling(files, i) ==
    {p \in RelativeImports(files[i][2]) :
        ~\E j \in DOMAIN files :
            PathText(files[j][1]) \in {DirText(files[i][1]) \o p \o ext : ext \in {".ts", ".tsx"}}}

\* C23: generated multi-file results are closed under relative imports: for
\* every skill whose data is a filename-to-content mapping and every flag
\* combination, each file that a generated file imports by a './' path is
\* itself a key of the same data mapping; in particular for cache_manager,
\* toast_notification_system and generate_nest_resource.
C23_ClosedUnderRelativeImports ==
    \A s \in FileMapReturns :
        \A i \in DOMAIN frames[s].res.data : Dangling(frames[s].res.data, i) = {}

\* C24: every file in a mapping-valued data has non-empty content: for every
\* skill that returns a filename-to-content mapping and every valid input, no
\* key maps to the empty string (file_upload_manager with provider 's3' and
\* its provider.ts entry included).
C24_NoEmptyFile ==
    \A s \in FileMapReturns :
        \A i \in DOMAIN frames[s].res.data : PathText(frames[s].res.data[i][2]) # ""
====
